---- MODULE Spec2Model ----
(***************************************************************************)
(* Model of the supply/demand flip scanner (stock_scanner.py).             *)
(*                                                                         *)
(* Prices are integers; a cluster level (np.mean of the member prices) is  *)
(* kept as the exact fraction num/den, and every comparison of the source  *)
(* (level * 1.02, level * (1 + tol * 1.5), ...) is decided by              *)
(* cross-multiplication, in exact arithmetic.  Tolerances are in per mille *)
(* (20 = 0.02), date strings are day numbers, distance_pct is a number of  *)
(* hundredths and weeks_old a number of tenths.                            *)
(* Row positions are Python's, 0-based; row i of d is d[i + 1].            *)
(***************************************************************************)
EXTENDS Integers, Sequences, FiniteSets, TLC

(***************************************************************************)
(* Bounds of the model.                                                    *)
(***************************************************************************)
PadLen == 18
MaxPeaks == 3
MaxTail == 5
MaxRuns == 2
MaxSwings == 5
MaxCands == 3
MaxTickers == 3
MaxUniverse == 2
MaxRefresh == 2
ZonePadLen == 13
MaxZoneBars == 7
MaxSwingBars == 7
MaxBounceTail == 6
MaxResults == 2
MaxNewStocks == 2

(***************************************************************************)
(* Program constants.                                                      *)
(***************************************************************************)
MIN_DATA_POINTS == 20
MinBarsForFlips == 30
SwingOrder == 3
DefaultSwingOrder == 5
MinBarsAfterTest == 5
MinBarsAfterBreakout == 2
BounceWindow == 5
DaysPerBar == 7
MinBarsForIndicators == 50
MIN_CONSOLIDATION_WEEKS == 3
MAX_CONSOLIDATION_RANGE_PCT == 50
MIN_RALLY_PCT == 100
RALLY_LOOKHEAD_WEEKS == 10
MaxRunLength == 20
MinBarsLeft == 5

\* None, where the source holds a date or a position
None == -1

(***************************************************************************)
(* The rows of a weekly frame.                                             *)
(***************************************************************************)
Bar(h, l, c) == [High |-> h, Low |-> l, Close |-> c]

Row(d, i) == d[i + 1]

\* df.index[i]: the timestamp of row i, in hours; bars are one week apart
IndexOf(d, i) == DaysPerBar * 24 * i

\* str(ts)[:10]: the timestamp cut to its calendar day ('YYYY-MM-DD' strings
\* order as their days do)
DateStr(ts) == ts \div 24

\* (a - b).days
DaysBetween(a, b) == (a - b) \div 24

\* df.iloc[k:]: the rows from position k on
ILocFrom(d, k) == IF k >= Len(d) THEN <<>> ELSE SubSeq(d, k + 1, Len(d))

\* numpy take(..., mode='clip'): a position outside the array is the nearest end
Clip(d, i) == IF i < 0 THEN 0 ELSE IF i > Len(d) - 1 THEN Len(d) - 1 ELSE i

\* one entry of argrelextrema(highs, np.greater, order): strictly greater than
\* the clipped neighbours at every shift 1..order, on both sides
IsRelMax(d, order, i) ==
    \A s \in 1..order :
        /\ Row(d, i).High > Row(d, Clip(d, i + s)).High
        /\ Row(d, i).High > Row(d, Clip(d, i - s)).High

RECURSIVE SwingFrom(_, _, _)
SwingFrom(d, order, i) ==
    IF i >= Len(d) THEN <<>>
    ELSE (IF IsRelMax(d, order, i) THEN <<i>> ELSE <<>>) \o SwingFrom(d, order, i + 1)

find_swing_highs(d, order) == SwingFrom(d, order, 0)

(***************************************************************************)
(* cluster_levels                                                          *)
(***************************************************************************)
Abs(x) == IF x < 0 THEN -x ELSE x

\* the integer nearest to n / d (d > 0), a tie going to the even one
RoundHalfEven(n, d) ==
    LET q == n \div d
        r == n - q * d
    IN IF 2 * r < d THEN q
       ELSE IF 2 * r > d THEN q + 1
       ELSE IF q % 2 = 0 THEN q ELSE q + 1

\* round(x, 1) of the fraction n / d, as a number of tenths
Round1(n, d) == RoundHalfEven(n * 10, d)

RECURSIVE SumPrices(_)
SumPrices(touches) ==
    IF touches = <<>> THEN 0 ELSE touches[1].price + SumPrices(Tail(touches))

\* np.mean([t['price'] for t in touches]) as the fraction num/den
MeanOf(touches) == [num |-> SumPrices(touches), den |-> Len(touches)]

Touch(prices, indices, dates, i) ==
    [price |-> prices[i], index |-> indices[i], date |-> dates[i]]

\* abs(prices[j] - level_price) / level_price <= tolerance
WithinTolerance(p, level, tol) ==
    Abs(p * level.den - level.num) * 1000 <= tol * level.num

\* a cluster that keeps its seed price as its level
LevelAfterAdmit_Seed(level, touches) == level

\* level_price = np.mean([t['price'] for t in touches])
LevelAfterAdmit(level, touches) == MeanOf(touches)

\* an admission that forgets used.add(j)
MarkUsed_Forgotten(used, j) == used

\* used.add(j)
MarkUsed(used, j) == used \cup {j}

\* the inner loop: for j in range(i + 1, len(prices))
RECURSIVE ClusterInner(_, _, _, _, _, _, _, _)
ClusterInner(prices, indices, dates, tol, j, used, touches, level) ==
    IF j > Len(prices) THEN [used |-> used, touches |-> touches, level |-> level]
    ELSE IF j \in used
        THEN ClusterInner(prices, indices, dates, tol, j + 1, used, touches, level)
    ELSE IF WithinTolerance(prices[j], level, tol)
        THEN LET t2 == Append(touches, Touch(prices, indices, dates, j))
             IN ClusterInner(prices, indices, dates, tol, j + 1, MarkUsed(used, j), t2,
                             LevelAfterAdmit(level, t2))
    ELSE ClusterInner(prices, indices, dates, tol, j + 1, used, touches, level)

\* the outer loop: for i in range(len(prices))
RECURSIVE ClusterOuter(_, _, _, _, _, _, _)
ClusterOuter(prices, indices, dates, tol, i, used, levels) ==
    IF i > Len(prices) THEN levels
    ELSE IF i \in used
        THEN ClusterOuter(prices, indices, dates, tol, i + 1, used, levels)
    ELSE LET r == ClusterInner(prices, indices, dates, tol, i + 1, used \cup {i},
                               <<Touch(prices, indices, dates, i)>>,
                               [num |-> prices[i], den |-> 1])
         IN ClusterOuter(prices, indices, dates, tol, i + 1, r.used,
                IF Len(r.touches) >= 1
                THEN Append(levels, [level |-> r.level, touches |-> r.touches,
                                     count |-> Len(r.touches)])
                ELSE levels)

cluster_levels(prices, indices, dates, tol) ==
    IF Len(prices) = 0 THEN <<>>
    ELSE ClusterOuter(prices, indices, dates, tol, 1, {}, <<>>)

(***************************************************************************)
(* identify_resistance_flips                                               *)
(***************************************************************************)
\* df is None or len(df) < 30 (scan_ticker never passes None)
InsufficientData(d) == Len(d) < MinBarsForFlips

RECURSIVE MaxIndex(_)
MaxIndex(touches) ==
    IF Len(touches) = 1 THEN touches[1].index
    ELSE LET m == MaxIndex(Tail(touches))
         IN IF touches[1].index > m THEN touches[1].index ELSE m

\* a breakout test without the 2% margin
ClosedAbove_AtLevel(bar, level) == bar.Close * level.den > level.num

\* row['Close'] > level * 1.02
ClosedAbove(bar, level) == bar.Close * level.den * 100 > level.num * 102

\* remaining_data = df.iloc[last_test_idx + 1:]
BreakoutScanStart(last_test_idx) == last_test_idx + 1

\* the breakout loop: the first row from k on that closed above, or None
RECURSIVE FirstBreakout(_, _, _)
FirstBreakout(d, level, k) ==
    IF k >= Len(d) THEN None
    ELSE IF ClosedAbove(Row(d, k), level) THEN k
    ELSE FirstBreakout(d, level, k + 1)

\* row['Low'] <= level * (1 + self.level_tolerance * 1.5)
LowNearLevel(bar, level, tol) ==
    bar.Low * level.den * 2000 <= level.num * (2000 + 3 * tol)

\* row['Close'] > level * 0.98
ClosedAboveFloor(bar, level) == bar.Close * level.den * 100 > level.num * 98

\* a support test that forgets the close
IsSupportTest_LowOnly(bar, level, tol) == LowNearLevel(bar, level, tol)

IsSupportTest(bar, level, tol) ==
    LowNearLevel(bar, level, tol) /\ ClosedAboveFloor(bar, level)

\* a support scan that starts on the breakout row itself
SupportScanStart_FromBreakout(breakout_idx) == breakout_idx

\* data_after_breakout = df.iloc[breakout_idx + 1:]
SupportScanStart(breakout_idx) == breakout_idx + 1

\* the support loop: the first row from k on that tests support, or None
RECURSIVE FirstSupportTest(_, _, _, _)
FirstSupportTest(d, level, tol, k) ==
    IF k >= Len(d) THEN None
    ELSE IF IsSupportTest(Row(d, k), level, tol) THEN k
    ELSE FirstSupportTest(d, level, tol, k + 1)

\* a bounce window that runs to the end of the frame
FutureRows_ToEnd(d, s) == {k \in 0..(Len(d) - 1) : s <= k}

\* a bounce window that starts after the support-test row
FutureRows_AfterTest(d, s) ==
    {k \in 0..(Len(d) - 1) : s < k /\ k <= s + BounceWindow}

\* future_data = data_after_breakout.iloc[i:i+5], as row positions of df
FutureRows(d, s) ==
    {k \in 0..(Len(d) - 1) : s <= k /\ k < s + BounceWindow}

\* future_data['High'].max()
MaxHigh(d, rows) ==
    CHOOSE h \in {Row(d, k).High : k \in rows} :
        \A k \in rows : Row(d, k).High <= h

\* ((high_after - level) / level) * 100, as a fraction
BouncePct(high_after, level) ==
    [num |-> (high_after * level.den - level.num) * 100, den |-> level.num]

support_bounce_pct(d, level, s) ==
    IF FutureRows(d, s) # {}
    THEN BouncePct(MaxHigh(d, FutureRows(d, s)), level)
    ELSE [num |-> 0, den |-> 1]

\* an append that is not guarded by support_test_found
ShouldEmit_Always(support_test_found) == TRUE

\* if support_test_found: flipped_levels.append(...)
ShouldEmit(support_test_found) == support_test_found

RECURSIVE TouchDates(_)
TouchDates(touches) ==
    IF touches = <<>> THEN <<>>
    ELSE <<DateStr(touches[1].date)>> \o TouchDates(Tail(touches))

\* one pass of the loop over resistance_levels: the level appended, if any
FlipOf(d, level_data, tol) ==
    LET level == level_data.level
        touches == level_data.touches
        last_test_idx == MaxIndex(touches)
        last_test_date == IndexOf(d, last_test_idx)
        remaining_data == ILocFrom(d, BreakoutScanStart(last_test_idx))
        breakout_idx == FirstBreakout(d, level, BreakoutScanStart(last_test_idx))
        data_after_breakout == ILocFrom(d, SupportScanStart(breakout_idx))
        support_idx == FirstSupportTest(d, level, tol, SupportScanStart(breakout_idx))
        support_test_found == support_idx # None
        support_test_date == IF support_test_found THEN IndexOf(d, support_idx) ELSE None
    IN  IF Len(remaining_data) < MinBarsAfterTest THEN <<>>
        ELSE IF breakout_idx = None THEN <<>>
        ELSE IF Len(data_after_breakout) < MinBarsAfterBreakout THEN <<>>
        ELSE IF ~ShouldEmit(support_test_found) THEN <<>>
        ELSE << [level |-> level,
                 resistance_tests |-> Len(touches),
                 resistance_dates |-> TouchDates(touches),
                 last_resistance_date |-> DateStr(last_test_date),
                 breakout_date |-> DateStr(IndexOf(d, breakout_idx)),
                 support_test_date |->
                     IF support_test_date # None THEN DateStr(support_test_date)
                     ELSE None,
                 support_bounce_pct |->
                     IF support_test_found THEN support_bounce_pct(d, level, support_idx)
                     ELSE [num |-> 0, den |-> 1],
                 weeks_old |->
                     Round1(DaysBetween(IndexOf(d, Len(d) - 1), last_test_date), 7),
                 strength |-> Len(touches)] >>

RECURSIVE FlipsOf(_, _, _)
FlipsOf(d, levels, tol) ==
    IF levels = <<>> THEN <<>>
    ELSE FlipOf(d, levels[1], tol) \o FlipsOf(d, Tail(levels), tol)

\* [l for l in resistance_levels if l['count'] >= self.min_tests]
\* a filter that wants more than min_tests tests
RECURSIVE FilterMinTests_Strict(_, _)
FilterMinTests_Strict(levels, min_tests) ==
    IF levels = <<>> THEN <<>>
    ELSE (IF levels[1].count > min_tests THEN <<levels[1]>> ELSE <<>>)
         \o FilterMinTests_Strict(Tail(levels), min_tests)

\* [l for l in resistance_levels if l['count'] >= self.min_tests]
RECURSIVE FilterMinTests(_, _)
FilterMinTests(levels, min_tests) ==
    IF levels = <<>> THEN <<>>
    ELSE (IF levels[1].count >= min_tests THEN <<levels[1]>> ELSE <<>>)
         \o FilterMinTests(Tail(levels), min_tests)

SwingPrices(d, swing) == [k \in 1..Len(swing) |-> Row(d, swing[k]).High]

SwingDates(d, swing) == [k \in 1..Len(swing) |-> IndexOf(d, swing[k])]

\* the clusters that reach the flip loop
ResistanceLevels(d, swing, tol, min_tests) ==
    FilterMinTests(
        cluster_levels(SwingPrices(d, swing), swing, SwingDates(d, swing), tol),
        min_tests)

\* one call: the list returned, which return was taken, and the clusters the
\* flip loop went through (the local resistance_levels after the filter)
DetectRun(d, tol, min_tests) ==
    IF InsufficientData(d)
    THEN [flips |-> <<>>, path |-> "insufficient", levels |-> <<>>]
    ELSE LET swing == find_swing_highs(d, SwingOrder)
         IN IF Len(swing) < min_tests
            THEN [flips |-> <<>>, path |-> "few_swings", levels |-> <<>>]
            ELSE LET levels == ResistanceLevels(d, swing, tol, min_tests)
                 IN [flips |-> FlipsOf(d, levels, tol), path |-> "analysed",
                     levels |-> levels]

identify_resistance_flips(d, tol, min_tests) == DetectRun(d, tol, min_tests).flips

(***************************************************************************)
(* is_currently_testing_flipped_level and the result of scan_ticker.  A    *)
(* value that may be None is a sequence: <<>> for None, <<v>> for v.       *)
(***************************************************************************)
\* a range that closes at level * (1 + tolerance) instead of level * 1.05
InMatchRange_TolAbove(price, level, tol) ==
    /\ level.num * (1000 - tol) <= price * level.den * 1000
    /\ price * level.den * 1000 <= level.num * (1000 + tol)

\* lower_bound <= current_price <= upper_bound, with
\* lower_bound = level * (1 - tolerance), upper_bound = level * (1 + 0.05)
InMatchRange(price, level, tol) ==
    /\ level.num * (1000 - tol) <= price * level.den * 1000
    /\ price * level.den * 100 <= level.num * 105

\* round(x, 2) of the fraction x, as a number of hundredths
Round2(x) == RoundHalfEven(x.num * 100, x.den)

\* a distance that drops the sign
distance_pct_Unsigned(price, level) ==
    Round2([num |-> Abs(price * level.den - level.num) * 100, den |-> level.num])

\* round(((current_price - level) / level) * 100, 2), in hundredths
distance_pct(price, level) ==
    Round2([num |-> (price * level.den - level.num) * 100, den |-> level.num])

\* a match that carries the level and the two new keys only
MatchedLevel_Bare(level_data, price) ==
    [level |-> level_data.level, current_price |-> price,
     distance_pct |-> distance_pct(price, level_data.level)]

\* {**level_data, 'current_price': ..., 'distance_pct': ...}
MatchedLevel(level_data, price) ==
    [k \in DOMAIN level_data \cup {"current_price", "distance_pct"} |->
        IF k = "current_price" THEN price
        ELSE IF k = "distance_pct" THEN distance_pct(price, level_data.level)
        ELSE level_data[k]]

\* a loop that keeps the last candidate in range
RECURSIVE MatchLoop_Last(_, _, _, _)
MatchLoop_Last(price, levels, tol, k) ==
    IF k > Len(levels) THEN <<>>
    ELSE LET later == MatchLoop_Last(price, levels, tol, k + 1)
         IN IF later # <<>> THEN later
            ELSE IF InMatchRange(price, levels[k].level, tol)
                 THEN <<MatchedLevel(levels[k], price)>>
            ELSE <<>>

\* for level_data in flipped_levels: return at the first one in range
RECURSIVE MatchLoop(_, _, _, _)
MatchLoop(price, levels, tol, k) ==
    IF k > Len(levels) THEN <<>>
    ELSE IF InMatchRange(price, levels[k].level, tol)
        THEN <<MatchedLevel(levels[k], price)>>
    ELSE MatchLoop(price, levels, tol, k + 1)

is_currently_testing_flipped_level(price, levels, tol) ==
    IF levels = <<>> THEN <<>> ELSE MatchLoop(price, levels, tol, 1)

\* calculate_technical_indicators: None under 50 rows; else the computation
\* runs inside try/except, ta saying what it does on this frame: an opaque
\* dict when it succeeds ("ok"), None when it raises ("raise")
calculate_technical_indicators(d, ta) ==
    IF Len(d) < MinBarsForIndicators THEN <<>>
    ELSE IF ta = "raise" THEN <<>>
    ELSE <<"indicators">>

\* the result dict scan_ticker builds for a match
ScanResult(ticker, d, price, matched_level, flipped, indicators) ==
    [ticker |-> ticker,
     current_price |-> price,
     level |-> matched_level,
     all_levels |-> flipped,
     data |-> d,
     indicators |-> indicators]

\* a scan_ticker that computes the indicators first and gives up without them
ScanMatchStep_IndicatorsFirst(ticker, d, ta, price, flipped, tol) ==
    IF flipped = <<>> THEN [value |-> <<>>, calls |-> <<>>]
    ELSE LET indicators == calculate_technical_indicators(d, ta)
             matched_level == is_currently_testing_flipped_level(price, flipped, tol)
         IN IF indicators # <<>> /\ matched_level # <<>>
            THEN [value |-> << ScanResult(ticker, d, price, matched_level[1],
                                          flipped, indicators) >>,
                  calls |-> <<"calculate_technical_indicators",
                              "is_currently_testing_flipped_level">>]
            ELSE [value |-> <<>>,
                  calls |-> <<"calculate_technical_indicators",
                              "is_currently_testing_flipped_level">>]

\* scan_ticker once the frame is fetched and detection has run: what it
\* returns (value, <<>> for None) and the methods it calls, in order
ScanMatchStep(ticker, d, ta, price, flipped, tol) ==
    IF flipped = <<>> THEN [value |-> <<>>, calls |-> <<>>]
    ELSE LET matched_level == is_currently_testing_flipped_level(price, flipped, tol)
         IN IF matched_level # <<>>
            THEN [value |-> << ScanResult(ticker, d, price, matched_level[1], flipped,
                                   calculate_technical_indicators(d, ta)) >>,
                  calls |-> <<"is_currently_testing_flipped_level",
                              "calculate_technical_indicators">>]
            ELSE [value |-> <<>>,
                  calls |-> <<"is_currently_testing_flipped_level">>]

(***************************************************************************)
(* fetch_weekly_data and scan_ticker.  What the data source does for a     *)
(* ticker is an outcome: kind "raise" (yfinance raises) or "frame" with    *)
(* the rows it returns, none for an empty frame; ta is what the indicator  *)
(* computation does on that frame.  A call that may raise yields           *)
(* [raised, value]; scan_ticker also yields the methods it called.         *)
(***************************************************************************)
Raised == [raised |-> TRUE, value |-> <<>>]

Returned(v) == [raised |-> FALSE, value |-> v]

\* the try block: stock.history(...), then None for an empty frame
FetchBody(outcome) ==
    IF outcome.kind = "raise" THEN Raised
    ELSE IF outcome.rows = <<>> THEN Returned(<<>>)
    ELSE Returned(<<outcome.rows>>)

\* a fetch without the except clause
fetch_weekly_data_NoExcept(outcome) == FetchBody(outcome)

\* except Exception: return None
fetch_weekly_data(outcome) ==
    IF FetchBody(outcome).raised THEN Returned(<<>>) ELSE FetchBody(outcome)

\* scan_ticker from a fetched, non-empty frame on
ScanFrame(ticker, d, ta, sc) ==
    LET step == ScanMatchStep(ticker, d, ta, Row(d, Len(d) - 1).Close,
                    identify_resistance_flips(d, sc.level_tolerance, sc.min_tests),
                    sc.level_tolerance)
    IN [value |-> step.value,
        calls |-> <<"identify_resistance_flips">> \o step.calls]

scan_ticker(ticker, outcome, sc) ==
    LET fetched == fetch_weekly_data(outcome)
    IN IF fetched.raised
       THEN [raised |-> TRUE, value |-> <<>>, calls |-> <<"fetch_weekly_data">>]
       ELSE IF fetched.value = <<>>
       THEN [raised |-> FALSE, value |-> <<>>, calls |-> <<"fetch_weekly_data">>]
       ELSE LET scan == ScanFrame(ticker, fetched.value[1], outcome.ta, sc)
            IN [raised |-> FALSE, value |-> scan.value,
                calls |-> <<"fetch_weekly_data">> \o scan.calls]

(***************************************************************************)
(* The consolidation-zone detector, which the repository's configuration   *)
(* (config.py) and test script describe and stock_scanner.py no longer     *)
(* holds: a single left-to-right scan for runs of low-range bars followed  *)
(* by a rally.  Percentages of the configuration are in tenths (50 = 5.0%).*)
(* A zone's mid is the midpoint of low and high, as the fraction           *)
(* (low + high) / 2.                                                       *)
(***************************************************************************)
\* range_pct = (high - low) / low * 100 is below the ceiling
RangeBelow(bar, ceiling) == (bar.High - bar.Low) * 1000 < ceiling * bar.Low

\* the run of consecutive low-range bars from row i, capped at MaxRunLength
RECURSIVE RunLength(_, _, _, _)
RunLength(d, i, j, ceiling) ==
    IF j >= Len(d) \/ j >= i + MaxRunLength THEN j - i
    ELSE IF RangeBelow(Row(d, j), ceiling) THEN RunLength(d, i, j + 1, ceiling)
    ELSE j - i

RunRows(i, length) == {k \in i..(i + length - 1) : TRUE}

\* min low over the run
MinLow(d, rows) ==
    CHOOSE l \in {Row(d, k).Low : k \in rows} : \A k \in rows : l <= Row(d, k).Low

\* the rows of the look-ahead window past the run's end, those that exist
LookAhead(d, end, window) == {k \in 0..(Len(d) - 1) : end < k /\ k <= end + window}

\* rally_pct = (max_high_after - consolidation_high) / consolidation_high * 100
RallyPct(max_high_after, consolidation_high) ==
    [num |-> (max_high_after - consolidation_high) * 100, den |-> consolidation_high]

\* a rally test that lets every candidate through
RallyReached_Always(rally_pct, min_rally_pct) == TRUE

\* rally_pct >= min_rally_pct
RallyReached(rally_pct, min_rally_pct) ==
    rally_pct.num * 10 >= min_rally_pct * rally_pct.den

\* a scan that steps one bar after a run instead of past its end
AfterRun_NextBar(i, length) == i + 1

\* advance i to just past the run's end
AfterRun(i, length) == i + length

\* a qualifying run from row i: its verdict and, when emitted, its zone
Candidate_Zone(d, i, length, cfg) ==
    LET end == i + length - 1
        consolidation_high == MaxHigh(d, RunRows(i, length))
        consolidation_low == MinLow(d, RunRows(i, length))
        ahead == LookAhead(d, end, cfg.rally_lookahead_weeks)
    IN IF ahead = {}
       THEN [start |-> i, end |-> end, verdict |-> "no_bars_ahead", zone |-> <<>>]
       ELSE LET rally_pct == RallyPct(MaxHigh(d, ahead), consolidation_high)
            IN IF RallyReached(rally_pct, cfg.min_rally_pct)
               THEN [start |-> i, end |-> end, verdict |-> "emitted",
                     zone |-> << [low |-> consolidation_low,
                                  high |-> consolidation_high,
                                  mid |-> [num |-> consolidation_low + consolidation_high,
                                           den |-> 2],
                                  formed_at |-> IndexOf(d, end),
                                  rally_pct |-> rally_pct,
                                  strength |-> length] >>]
               ELSE [start |-> i, end |-> end, verdict |-> "weak_rally", zone |-> <<>>]

\* the scan from row i: the candidates met, in order
RECURSIVE ZoneScan(_, _, _)
ZoneScan(d, i, cfg) ==
    IF Len(d) - i < cfg.min_consolidation_weeks + MinBarsLeft THEN <<>>
    ELSE LET length == RunLength(d, i, i, cfg.max_consolidation_range_pct)
         IN IF length >= cfg.min_consolidation_weeks
            THEN <<Candidate_Zone(d, i, length, cfg)>>
                 \o ZoneScan(d, AfterRun(i, length), cfg)
            ELSE ZoneScan(d, i + 1, cfg)

RECURSIVE ZonesOf(_)
ZonesOf(candidates) ==
    IF candidates = <<>> THEN <<>>
    ELSE candidates[1].zone \o ZonesOf(Tail(candidates))

\* one run of the detector: the zones emitted and the candidates met; a
\* series under MIN_DATA_POINTS bars is insufficient data
find_demand_zones(d, cfg) ==
    IF Len(d) < MIN_DATA_POINTS THEN [zones |-> <<>>, candidates |-> <<>>]
    ELSE LET candidates == ZoneScan(d, 0, cfg)
         IN [zones |-> ZonesOf(candidates), candidates |-> candidates]

(***************************************************************************)
(* New-stock detection (discord_integration.py).  The file last_scan.json  *)
(* is [kind, tickers]: "absent", "json" with the tickers it lists, or      *)
(* "unreadable" (cut short, or not the JSON the loader expects).  What the  *)
(* file system does to a read or a write is an input of each call.         *)
(***************************************************************************)
\* load_previous_scan: the set in the file; an empty set when there is no
\* file or when reading it raises
load_previous_scan(file, read) ==
    IF file.kind = "absent" THEN {}
    ELSE IF read = "raise" \/ file.kind = "unreadable" THEN {}
    ELSE file.tickers

\* save_current_scan: the file after the call and the value returned; open()
\* may raise (the file stays as it was) and so may the write after open()
\* emptied the file
save_current_scan(file, current_tickers, write) ==
    IF write = "open_raises" THEN [file |-> file, returned |-> FALSE]
    ELSE IF write = "dump_raises"
        THEN [file |-> [kind |-> "unreadable", tickers |-> {}], returned |-> FALSE]
    ELSE [file |-> [kind |-> "json", tickers |-> current_tickers], returned |-> TRUE]

\* {r['ticker'] for r in current_results}
TickerSet(current_results) ==
    {current_results[k].ticker : k \in 1..Len(current_results)}

\* [r for r in current_results if r['ticker'] in new_tickers]
RECURSIVE StocksIn(_, _)
StocksIn(current_results, new_tickers) ==
    IF current_results = <<>> THEN <<>>
    ELSE (IF current_results[1].ticker \in new_tickers
          THEN <<current_results[1]>> ELSE <<>>)
         \o StocksIn(Tail(current_results), new_tickers)

\* a save that keeps the new tickers only
SavedTickers_OnlyNew(current_tickers, new_tickers) == new_tickers

\* save_current_scan(current_tickers)
SavedTickers(current_tickers, new_tickers) == current_tickers

detect_new_stocks(current_results, file, read, write) ==
    LET current_tickers == TickerSet(current_results)
        previous_tickers == load_previous_scan(file, read)
        new_tickers == current_tickers \ previous_tickers
        new_stocks == StocksIn(current_results, new_tickers)
        saved == save_current_scan(file, SavedTickers(current_tickers, new_tickers), write)
    IN [new_stocks |-> new_stocks, file |-> saved.file, saved |-> saved.returned]

(***************************************************************************)
(* DiscordNotifier.send_new_stocks_alert.  A stock is [ticker, indicators, *)
(* zone]: indicators is "absent" (no such key), "None", or the macd_trend  *)
(* of the indicators dict ("Bullish", "Bearish", "Other"); zone tells       *)
(* whether the dict has the key 'zone'.  webhook gives, per group, what     *)
(* webhook.execute() does: a status code or "raise".                        *)
(***************************************************************************)
\* [s for s in new_stocks if s.get('indicators', {}).get('macd_trend') ...]
RECURSIVE Group(_, _)
Group(new_stocks, trends) ==
    IF new_stocks = <<>> THEN <<>>
    ELSE (IF new_stocks[1].indicators \in trends THEN <<new_stocks[1]>> ELSE <<>>)
         \o Group(Tail(new_stocks), trends)

\* sorted(...)[:3]; which stocks are kept depends on the RSI order only for
\* a group of more than three
Top3(stocks) == SubSeq(stocks, 1, IF Len(stocks) < 3 THEN Len(stocks) ELSE 3)

\* _send_macd_group_alert: stock['zone'] raises KeyError for a stock without
\* the key, webhook.execute() may raise; both end in `return False`
send_macd_group_alert(stocks, macd_type, webhook) ==
    IF \E k \in 1..Len(stocks) : ~stocks[k].zone THEN FALSE
    ELSE IF webhook[macd_type] = "raise" THEN FALSE
    ELSE webhook[macd_type] = "200"

Attempt(stocks, macd_type, webhook) ==
    [group |-> macd_type,
     delivered |-> send_macd_group_alert(Top3(stocks), macd_type, webhook)]

\* the body of the try block: the groups sent, each with what its send
\* returned, which the caller does not read
Sends(new_stocks, webhook) ==
    LET bullish_sorted == Group(new_stocks, {"Bullish"})
        bearish_sorted == Group(new_stocks, {"Bearish"})
        neutral_sorted == Group(new_stocks, {"absent", "Other"})
    IN (IF bullish_sorted # <<>>
        THEN <<Attempt(bullish_sorted, "Bullish", webhook)>> ELSE <<>>)
       \o (IF bearish_sorted # <<>>
           THEN <<Attempt(bearish_sorted, "Bearish", webhook)>> ELSE <<>>)
       \o (IF neutral_sorted # <<>> /\ bullish_sorted = <<>> /\ bearish_sorted = <<>>
           THEN <<Attempt(neutral_sorted, "Neutral", webhook)>> ELSE <<>>)

\* None.get('macd_trend') raises AttributeError in the first comprehension
SplitRaises(new_stocks) ==
    \E k \in 1..Len(new_stocks) : new_stocks[k].indicators = "None"

send_new_stocks_alert(webhook_url, new_stocks, webhook) ==
    IF webhook_url = "" \/ new_stocks = <<>> THEN [returned |-> FALSE, sends |-> <<>>]
    ELSE IF SplitRaises(new_stocks) THEN [returned |-> FALSE, sends |-> <<>>]
    ELSE [returned |-> TRUE, sends |-> Sends(new_stocks, webhook)]

(***************************************************************************)
(* The constructor.  A call's keyword arguments are a set of <<name,       *)
(* value>> pairs; Python raises TypeError for a keyword the signature does *)
(* not name, before the body runs.                                         *)
(***************************************************************************)
\* def __init__(self, lookback_years=2, level_tolerance=0.02, min_tests=3)
InitDefaults == [lookback_years |-> 2, level_tolerance |-> 20, min_tests |-> 3]

KwargNames(kwargs) == {p[1] : p \in kwargs}

KwargValue(kwargs, name) == (CHOOSE p \in kwargs : p[1] = name)[2]

\* the value a parameter is bound to: the keyword's, else the default
Bound(kwargs, name) ==
    IF name \in KwargNames(kwargs) THEN KwargValue(kwargs, name)
    ELSE InitDefaults[name]

\* SupplyDemandFlipScanner(**kwargs): the three assignments of __init__,
\* which checks no value
SupplyDemandFlipScanner(kwargs) ==
    IF ~(KwargNames(kwargs) \subseteq DOMAIN InitDefaults) THEN Raised
    ELSE Returned([lookback_years |-> Bound(kwargs, "lookback_years"),
                   level_tolerance |-> Bound(kwargs, "level_tolerance"),
                   min_tests |-> Bound(kwargs, "min_tests")])

\* DemandZoneScanner = SupplyDemandFlipScanner
DemandZoneScanner(kwargs) == SupplyDemandFlipScanner(kwargs)

\* an object none of whose fields is assigned yet
Unconstructed == [lookback_years |-> None, level_tolerance |-> None, min_tests |-> None]

(***************************************************************************)
(* State.  scanner holds the fields __init__ sets; df is the frame under   *)
(* analysis; runs records, per call of identify_resistance_flips on df,    *)
(* the list returned and the return taken.  swings is an argument list of  *)
(* cluster_levels and clusters what the call returned (<<>> before it).    *)
(* tickers is the argument of scan_multiple_tickers, world what the data    *)
(* source does for each ticker, idx the loop position, results the list    *)
(* being built, progress_callback whether the caller passed a callback,    *)
(* progress the notifications delivered, each with the number of           *)
(* scan_ticker calls that had returned when it was delivered, scan_log the *)
(* methods each scan_ticker call made and whether it returned a result, pc *)
(* where the call stands: "loop"                                           *)
(* (top of the loop body), "scan" (the callback returned, scan_ticker not  *)
(* yet called), "done" (returned results) or "raised".  abort_requested is *)
(* the user's wish to stop the batch, which the caller has no parameter to *)
(* pass.  ctor_kwargs are the keyword arguments of a constructor call, a   *)
(* set of <<name, value>> pairs, and setup where that call stands: "new",  *)
(* "ready" (the object is built) or "TypeError".  universe is what the     *)
(* ticker page does for get_sp500_tickers, session the dashboard's         *)
(* st.session_state, scan_cache what st.cache_data holds for cached_scan,  *)
(* report what the dashboard shows for the scan.  zone_config and zones    *)
(* are the configuration and the output of the consolidation-zone          *)
(* detector.  last_scan is the file last_scan.json, detections the last    *)
(* calls of detect_new_stocks (the latest two), alert the arguments of a   *)
(* send_new_stocks_alert call with what the webhook does, alert_out what   *)
(* the call returned and sent.                                             *)
(***************************************************************************)
VARIABLES scanner, df, runs, swings, clusters,
          flipped_levels, current_price, matched, scan_out,
          tickers, world, idx, results, progress_callback, progress, scan_log,
          abort_requested, pc,
          ctor_kwargs, setup,
          universe, session, scan_cache, report,
          zone_config, zones,
          last_scan, detections, alert, alert_out

vars == <<scanner, df, runs, swings, clusters,
          flipped_levels, current_price, matched, scan_out,
          tickers, world, idx, results, progress_callback, progress, scan_log,
          abort_requested, pc,
          ctor_kwargs, setup,
          universe, session, scan_cache, report,
          zone_config, zones,
          last_scan, detections, alert, alert_out>>

batchVars == <<tickers, world, idx, results, progress_callback, progress, scan_log,
               abort_requested, pc>>

matchVars == <<flipped_levels, current_price, matched, scan_out>>

detectVars == <<df, runs>>

setupVars == <<ctor_kwargs, setup>>

dashVars == <<universe, session, scan_cache, report>>

zoneVars == <<zone_config, zones>>

newsVars == <<last_scan, detections>>

alertVars == <<alert, alert_out>>

clusterVars == <<swings, clusters>>

NoSwings == [prices |-> <<>>, indices |-> <<>>, dates |-> <<>>]

DetectIdle == df = <<>> /\ runs = <<>>

SetupIdle == ctor_kwargs = {} /\ setup = "idle"

NoSession == [scan_started |-> FALSE, results |-> <<>>, cache_buster |-> 0]

DashIdle ==
    /\ universe = [kind |-> "raise", tickers |-> <<>>]
    /\ session = NoSession /\ scan_cache = <<>> /\ report = "idle"

NoZoneConfig ==
    [min_consolidation_weeks |-> 0, max_consolidation_range_pct |-> 0,
     min_rally_pct |-> 0, rally_lookahead_weeks |-> 0]

ZoneIdle == zone_config = NoZoneConfig /\ zones = <<>>

\* last_scan.json does not exist
NoFile == [kind |-> "absent", tickers |-> {}]

NewsIdle == last_scan = NoFile /\ detections = <<>>

NoAlert == [webhook_url |-> "", new_stocks |-> <<>>, webhook |-> <<>>]

AlertIdle == alert = NoAlert /\ alert_out = <<>>

ClusterIdle == swings = NoSwings /\ clusters = <<>>

MatchIdle ==
    flipped_levels = <<>> /\ current_price = 0 /\ matched = <<>> /\ scan_out = <<>>

Tickers == {"AAA", "BBB", "CCC"}

\* the data source raising
Unreachable == [kind |-> "raise", rows |-> <<>>, ta |-> "ok"]

BatchIdle ==
    /\ tickers = <<>> /\ world = [t \in Tickers |-> Unreachable]
    /\ idx = 0 /\ results = <<>> /\ progress_callback = FALSE /\ progress = <<>>
    /\ scan_log = <<>> /\ abort_requested = FALSE /\ pc = "idle"

(***************************************************************************)
(* Inputs: PadLen quiet rows, then up to MaxPeaks peaks, each followed by  *)
(* three quiet rows, then up to MaxTail rows drawn from TailBars.          *)
(***************************************************************************)
Valley == Bar(90, 86, 88)

PeakBar(p) == Bar(p, p - 8, p - 1)

PeakPrices == {96, 100}

\* a quiet row, a row closing far above, a row dipping back to the level
TailBars == {Bar(97, 93, 95), Bar(112, 106, 110), Bar(104, 100, 101)}

Configs ==
    { [lookback_years |-> 2, level_tolerance |-> 20, min_tests |-> 2],
      [lookback_years |-> 2, level_tolerance |-> 50, min_tests |-> 3] }

\* the scanner __init__ builds from its defaults
DefaultScanner == SupplyDemandFlipScanner({}).value

SeqUpTo(S, n) == UNION {[1..k -> S] : k \in 0..n}

Pad(n) == [k \in 1..n |-> Valley]

RECURSIVE PeakBlocks(_)
PeakBlocks(ps) ==
    IF ps = <<>> THEN <<>>
    ELSE <<PeakBar(ps[1]), Valley, Valley, Valley>> \o PeakBlocks(Tail(ps))

Series ==
    { Pad(PadLen) \o PeakBlocks(ps) \o t :
        ps \in SeqUpTo(PeakPrices, MaxPeaks), t \in SeqUpTo(TailBars, MaxTail) }

(***************************************************************************)
(* Detection on one frame.                                                 *)
(***************************************************************************)
\* a call that raises the scanner's min_tests as a side effect
ScannerAfterDetect_Tightens(sc) == [sc EXCEPT !.min_tests = @ + 1]

\* the scanner's fields after a call: the method assigns none of them
ScannerAfterDetect(sc) == sc

InitDetect ==
    /\ scanner \in Configs
    /\ df \in Series
    /\ runs = <<>>
    /\ ClusterIdle /\ MatchIdle /\ BatchIdle
    /\ SetupIdle /\ DashIdle /\ ZoneIdle /\ NewsIdle /\ AlertIdle

Detect ==
    /\ Len(runs) < MaxRuns
    /\ runs' = Append(runs,
           DetectRun(df, scanner.level_tolerance, scanner.min_tests))
    /\ scanner' = ScannerAfterDetect(scanner)
    /\ UNCHANGED <<df, clusterVars, matchVars, batchVars, setupVars, dashVars, zoneVars,
                   newsVars, alertVars>>

NextDetect == Detect

SpecDetect == InitDetect /\ [][NextDetect]_vars

(***************************************************************************)
(* Clustering on its own: any list of swing prices, at rows that are       *)
(* SwingOrder + 1 apart.                                                   *)
(***************************************************************************)
SwingPalette == {99, 100, 101, 150, 151}

SwingInput(ps) ==
    [prices |-> ps,
     indices |-> [k \in 1..Len(ps) |-> SwingOrder + (SwingOrder + 1) * (k - 1)],
     dates |-> [k \in 1..Len(ps) |->
                  IndexOf(<<>>, SwingOrder + (SwingOrder + 1) * (k - 1))]]

InitCluster ==
    /\ scanner \in Configs \cup {DefaultScanner}
    /\ swings \in {SwingInput(ps) : ps \in SeqUpTo(SwingPalette, MaxSwings)}
    /\ clusters = <<>>
    /\ DetectIdle /\ MatchIdle /\ BatchIdle
    /\ SetupIdle /\ DashIdle /\ ZoneIdle /\ NewsIdle /\ AlertIdle

Cluster ==
    /\ clusters = <<>>
    /\ \E levels \in {cluster_levels(swings.prices, swings.indices, swings.dates,
                                      scanner.level_tolerance)} :
          clusters' = <<levels, FilterMinTests(levels, scanner.min_tests)>>
    /\ UNCHANGED <<scanner, swings, detectVars, matchVars, batchVars, setupVars,
                   dashVars, zoneVars,
                   newsVars, alertVars>>

NextCluster == Cluster

SpecCluster == InitCluster /\ [][NextCluster]_vars

(***************************************************************************)
(* find_swing_highs on its own: any frame of up to MaxSwingBars rows with  *)
(* highs of SwingHighs, with the order identify_resistance_flips passes or *)
(* the default one.  swings holds, once the call returned, the rows        *)
(* reported with their highs and dates, and the order used.                *)
(***************************************************************************)
SwingHighs == {96, 100, 104}

SwingSeries ==
    { [k \in 1..Len(hs) |-> PeakBar(hs[k])] : hs \in SeqUpTo(SwingHighs, MaxSwingBars) }

InitSwing ==
    /\ scanner = DefaultScanner
    /\ df \in SwingSeries
    /\ runs = <<>>
    /\ ClusterIdle /\ MatchIdle /\ BatchIdle
    /\ SetupIdle /\ DashIdle /\ ZoneIdle /\ NewsIdle /\ AlertIdle

FindSwings ==
    /\ swings = NoSwings
    /\ \E order \in {SwingOrder, DefaultSwingOrder} :
          \E swing_high_indices \in {find_swing_highs(df, order)} :
              swings' = [prices |-> SwingPrices(df, swing_high_indices),
                         indices |-> swing_high_indices,
                         dates |-> SwingDates(df, swing_high_indices),
                         order |-> order]
    /\ UNCHANGED <<scanner, df, runs, clusters, matchVars, batchVars, setupVars,
                   dashVars, zoneVars,
                   newsVars, alertVars>>

NextSwing == FindSwings

SpecSwing == InitSwing /\ [][NextSwing]_vars

(***************************************************************************)
(* Proximity matching on its own: any list of up to MaxCands flipped       *)
(* levels and any price of MatchPrices.  matched and scan_out hold, once   *)
(* the call is made, what the matcher and scan_ticker returned.            *)
(***************************************************************************)
LevelPalette ==
    { [num |-> 100, den |-> 1], [num |-> 304, den |-> 3], [num |-> 30000, den |-> 1] }

MatchPrices == {97, 98, 100, 103, 105, 106, 29999, 30001}

\* a flipped level of three tests at the given level
Candidate(l) ==
    [level |-> l,
     resistance_tests |-> 3,
     resistance_dates |-> <<126, 154, 182>>,
     last_resistance_date |-> 182,
     breakout_date |-> 217,
     support_test_date |-> 224,
     support_bounce_pct |-> [num |-> 4 * l.num, den |-> l.num],
     weeks_old |-> 100,
     strength |-> 3]

InitMatch ==
    /\ scanner \in Configs
    /\ flipped_levels \in SeqUpTo({Candidate(l) : l \in LevelPalette}, MaxCands)
    /\ current_price \in MatchPrices
    /\ matched = <<>>
    /\ scan_out = <<>>
    /\ DetectIdle /\ ClusterIdle /\ BatchIdle
    /\ SetupIdle /\ DashIdle /\ ZoneIdle /\ NewsIdle /\ AlertIdle

MatchPrice ==
    /\ matched = <<>>
    /\ matched' = <<is_currently_testing_flipped_level(
                        current_price, flipped_levels, scanner.level_tolerance)>>
    /\ scan_out' = <<ScanMatchStep("T", df, "ok", current_price, flipped_levels,
                                   scanner.level_tolerance).value>>
    /\ UNCHANGED <<scanner, flipped_levels, current_price, detectVars, clusterVars,
                   batchVars, setupVars, dashVars, zoneVars,
                   newsVars, alertVars>>

NextMatch == MatchPrice

SpecMatch == InitMatch /\ [][NextMatch]_vars

(***************************************************************************)
(* scan_multiple_tickers of a default scanner over any list of up to       *)
(* MaxTickers tickers, with a progress callback, the data                  *)
(* source raising, returning nothing, too few rows, or one of three full   *)
(* frames for each ticker of the list.                                     *)
(***************************************************************************)
QuietRow == Bar(97, 93, 95)

BreakRow == Bar(112, 106, 110)

DipRow == Bar(104, 100, 101)

\* too little history: 26 rows
ShortFrame == Pad(PadLen) \o PeakBlocks(<<100, 100>>)

\* three tests of 100, a breakout, a support test; the last close is 101
TestingFrame == Pad(PadLen) \o PeakBlocks(<<100, 100, 100>>) \o <<BreakRow, DipRow, DipRow>>

\* the same flip, the last close far above the level
AwayFrame == Pad(PadLen) \o PeakBlocks(<<100, 100, 100>>) \o <<BreakRow, DipRow, BreakRow>>

\* the testing flip with enough history for the indicators
LongTestingFrame ==
    Pad(PadLen + PadLen) \o PeakBlocks(<<100, 100, 100>>) \o <<BreakRow, DipRow, DipRow>>

\* three tests of 96, three tests of 100 that break out of 96 and test it as
\* support, then a breakout of 100 and a support test; the last close is 101,
\* out of reach of the first level and at the second
TwoLevelFrame ==
    Pad(PadLen) \o PeakBlocks(<<96, 96, 96, 100, 100, 100>>)
    \o <<BreakRow, DipRow, DipRow>>

Outcomes ==
    { Unreachable, [kind |-> "frame", rows |-> <<>>, ta |-> "ok"] }
    \cup { [kind |-> "frame", rows |-> f, ta |-> "ok"] :
             f \in {ShortFrame, TwoLevelFrame, AwayFrame, LongTestingFrame} }
    \cup { [kind |-> "frame", rows |-> LongTestingFrame, ta |-> "raise"] }

\* the tickers of a list
Listed(ts) == {ts[k] : k \in 1..Len(ts)}

\* what the data source does for the tickers of the list; the others are
\* never asked for
Worlds(ts) ==
    { w \in [Tickers -> Outcomes] : \A t \in Tickers \ Listed(ts) : w[t] = Unreachable }

\* the call scan_multiple_tickers(tickers, progress_callback) at its first
\* statement, callback saying whether a callback was passed
BatchCalled(callback) ==
    /\ scanner = DefaultScanner
    /\ tickers \in SeqUpTo(Tickers, MaxTickers)
    /\ world \in Worlds(tickers)
    /\ idx = 0
    /\ results = <<>>
    /\ progress_callback = callback
    /\ progress = <<>>
    /\ scan_log = <<>>
    /\ abort_requested = FALSE
    /\ pc = "loop"
    /\ DetectIdle /\ ClusterIdle /\ MatchIdle
    /\ SetupIdle /\ DashIdle /\ ZoneIdle /\ NewsIdle /\ AlertIdle

InitBatch == BatchCalled(TRUE)

\* a callback handed the loop index itself, which starts at zero
Notification_ZeroBased(done, total, ticker, returned) ==
    [args |-> <<done - 1, total, ticker>>, returned |-> returned]

\* progress_callback(idx + 1, len(tickers), ticker), delivered when
\* `returned` calls of scan_ticker have returned
Notification(done, total, ticker, returned) ==
    [args |-> <<done, total, ticker>>, returned |-> returned]

\* the top of the loop body with a callback: the callback is called
Notify ==
    /\ pc = "loop"
    /\ idx < Len(tickers)
    /\ progress_callback
    /\ progress' = Append(progress,
           Notification(idx + 1, Len(tickers), tickers[idx + 1], Len(scan_log)))
    /\ pc' = "scan"
    /\ UNCHANGED <<scanner, tickers, world, idx, results, progress_callback, scan_log,
                   abort_requested, detectVars, clusterVars, matchVars,
                   setupVars, dashVars, zoneVars,
                   newsVars, alertVars>>

\* a loop that puts each result in front of the earlier ones
AppendResult_InFront(found, result) ==
    IF result # <<>> THEN <<result[1]>> \o found ELSE found

\* if result: results.append(result)
AppendResult(found, result) ==
    IF result # <<>> THEN Append(found, result[1]) ELSE found

\* the rest of the loop body: scan_ticker, and the result appended if any
ScanNext ==
    /\ idx < Len(tickers)
    /\ \/ pc = "scan"
       \/ pc = "loop" /\ ~progress_callback
    /\ \E result \in {scan_ticker(tickers[idx + 1], world[tickers[idx + 1]], scanner)} :
          /\ scan_log' = Append(scan_log,
                 [ticker |-> tickers[idx + 1], calls |-> result.calls,
                  found |-> result.value # <<>>])
          /\ IF result.raised
             THEN pc' = "raised" /\ UNCHANGED <<idx, results>>
             ELSE /\ results' = AppendResult(results, result.value)
                  /\ idx' = idx + 1
                  /\ pc' = "loop"
    /\ UNCHANGED <<scanner, tickers, world, progress_callback, progress,
                   abort_requested, detectVars, clusterVars, matchVars,
                   setupVars, dashVars, zoneVars,
                   newsVars, alertVars>>

\* return results
ReturnResults ==
    /\ pc = "loop"
    /\ idx = Len(tickers)
    /\ pc' = "done"
    /\ UNCHANGED <<scanner, tickers, world, idx, results, progress_callback, progress,
                   scan_log, abort_requested, detectVars, clusterVars, matchVars,
                   setupVars, dashVars, zoneVars,
                   newsVars, alertVars>>

NextBatch == Notify \/ ScanNext \/ ReturnResults

SpecBatch == InitBatch /\ [][NextBatch]_vars

(***************************************************************************)
(* The batch as the dashboard and the scheduled scanner call it, without a *)
(* callback, and a user who may ask, at any moment of the run, for it to   *)
(* stop.  scan_multiple_tickers(tickers, progress_callback) takes no flag  *)
(* and its loop reads none: no action of the batch reads abort_requested.  *)
(***************************************************************************)
RequestAbort ==
    /\ pc \in {"loop", "scan"}
    /\ ~abort_requested
    /\ abort_requested' = TRUE
    /\ UNCHANGED <<scanner, tickers, world, idx, results, progress_callback, progress,
                   scan_log, pc, detectVars, clusterVars, matchVars,
                   setupVars, dashVars, zoneVars,
                   newsVars, alertVars>>

InitAbort == BatchCalled(FALSE)

NextAbort == ScanNext \/ ReturnResults \/ RequestAbort

SpecAbort == InitAbort /\ [][NextAbort]_vars

(***************************************************************************)
(* A scanner built by a constructor call and then used.  The calls pass    *)
(* lookback_years and any of level_tolerance (-0.02, 0, 0.02), min_tests   *)
(* (0, 1, 3) and zone_tolerance (0.03, as the test script, the dashboard   *)
(* and the scheduled scanner pass it).                                     *)
(***************************************************************************)
OptionalKwarg(name, values) == {{}} \cup {{<<name, v>>} : v \in values}

CtorCalls ==
    { {<<"lookback_years", 2>>} \cup a \cup b \cup c :
        a \in OptionalKwarg("level_tolerance", {-20, 0, 20}),
        b \in OptionalKwarg("min_tests", {0, 1, 3}),
        c \in OptionalKwarg("zone_tolerance", {30}) }

InitSetup ==
    /\ ctor_kwargs \in CtorCalls
    /\ setup = "new"
    /\ scanner = Unconstructed
    /\ df \in {ShortFrame, TestingFrame, AwayFrame}
    /\ runs = <<>>
    /\ ClusterIdle /\ MatchIdle /\ BatchIdle /\ DashIdle /\ ZoneIdle /\ NewsIdle /\ AlertIdle

\* scanner = DemandZoneScanner(...)
Construct ==
    /\ setup = "new"
    /\ \E made \in {DemandZoneScanner(ctor_kwargs)} :
          IF made.raised
          THEN setup' = "TypeError" /\ UNCHANGED scanner
          ELSE setup' = "ready" /\ scanner' = made.value
    /\ UNCHANGED <<ctor_kwargs, detectVars, clusterVars, matchVars, batchVars,
                   dashVars, zoneVars,
                   newsVars, alertVars>>

\* the scanner, once built, analyses a frame
ScanAfterSetup == setup = "ready" /\ Detect

NextSetup == Construct \/ ScanAfterSetup

SpecSetup == InitSetup /\ [][NextSetup]_vars

(***************************************************************************)
(* The dashboard's scan handling (app.py).  The sliders give the keyword   *)
(* arguments cached_scan passes to the constructor; the ticker page either *)
(* fails or lists up to MaxUniverse tickers.  Discord alerts are off (the  *)
(* checkbox's default).                                                    *)
(***************************************************************************)
\* get_sp500_tickers: the list of the page, [] when the request or the
\* parsing raises
get_sp500_tickers(page) ==
    IF page.kind = "raise" THEN <<>> ELSE page.tickers

\* the loop of scan_multiple_tickers, run to its end without a callback
RECURSIVE ScanLoop(_, _, _, _, _)
ScanLoop(sc, ts, w, k, found) ==
    IF k > Len(ts) THEN Returned(found)
    ELSE LET result == scan_ticker(ts[k], w[ts[k]], sc)
         IN IF result.raised THEN Raised
            ELSE ScanLoop(sc, ts, w, k + 1,
                          IF result.value # <<>> THEN Append(found, result.value[1])
                          ELSE found)

scan_multiple_tickers(sc, ts, w) == ScanLoop(sc, ts, w, 1, <<>>)

\* the body of cached_scan: <<>> for (None, None), else <<results>>; the
\* timestamp is left out
CachedScanBody(kwargs, page, w) ==
    LET made == DemandZoneScanner(kwargs)
    IN IF made.raised THEN Raised
       ELSE IF get_sp500_tickers(page) = <<>> THEN Returned(<<>>)
       ELSE LET scanned == scan_multiple_tickers(made.value, get_sp500_tickers(page), w)
            IN IF scanned.raised THEN Raised ELSE Returned(<<scanned.value>>)

\* @st.cache_data: a stored return value is returned without running the
\* body; a value the body returns is stored, an exception is not
cached_scan(cache, kwargs, page, w) ==
    IF cache # <<>>
    THEN [raised |-> FALSE, value |-> cache[1], cache |-> cache]
    ELSE LET call == CachedScanBody(kwargs, page, w)
         IN IF call.raised
            THEN [raised |-> TRUE, value |-> <<>>, cache |-> cache]
            ELSE [raised |-> FALSE, value |-> call.value, cache |-> <<call.value>>]

\* what main shows for the scan
ErrorNoTickers == "st.error: Failed to fetch S&P 500 tickers"

ErrorDuringScan == "st.error: Error during scan"

WarningNoStocks == "st.warning: No stocks found testing flipped levels"

SuccessFound == "st.success: Found stocks testing flipped resistance levels"

SliderKwargs ==
    { {<<"lookback_years", y>>, <<"zone_tolerance", z>>} : y \in {2, 5}, z \in {10, 30} }

Pages ==
    { [kind |-> "raise", tickers |-> <<>>] }
    \cup { [kind |-> "page", tickers |-> ts] : ts \in SeqUpTo(Tickers, MaxUniverse) }

InitDashboard ==
    /\ scanner = Unconstructed
    /\ ctor_kwargs \in SliderKwargs
    /\ setup = "idle"
    /\ universe \in Pages
    /\ world \in Worlds(universe.tickers)
    /\ session = NoSession
    /\ scan_cache = <<>>
    /\ report = "idle"
    /\ tickers = <<>> /\ idx = 0 /\ results = <<>> /\ progress_callback = FALSE
    /\ progress = <<>> /\ scan_log = <<>> /\ abort_requested = FALSE /\ pc = "idle"
    /\ DetectIdle /\ ClusterIdle /\ MatchIdle /\ ZoneIdle /\ NewsIdle /\ AlertIdle

\* a run of main with the scan button pressed: the scan block and the display
StartScan ==
    /\ \E call \in {cached_scan(scan_cache, ctor_kwargs, universe, world)} :
          IF call.raised
          THEN /\ report' = ErrorDuringScan
               /\ session' = [session EXCEPT !.scan_started = FALSE, !.results = <<>>]
               /\ scan_cache' = call.cache
          ELSE IF call.value = <<>>
          THEN /\ report' = ErrorNoTickers
               /\ session' = [session EXCEPT !.scan_started = FALSE, !.results = <<>>]
               /\ scan_cache' = call.cache
          ELSE /\ session' = [session EXCEPT !.scan_started = FALSE,
                                             !.results = call.value]
               /\ scan_cache' = call.cache
               /\ report' = IF call.value[1] = <<>> THEN WarningNoStocks ELSE SuccessFound
    /\ UNCHANGED <<scanner, universe, ctor_kwargs, setup, detectVars, clusterVars,
                   matchVars, batchVars, zoneVars,
                   newsVars, alertVars>>

\* a run of main with the refresh button pressed
Refresh ==
    /\ session.cache_buster < MaxRefresh
    /\ session' = [session EXCEPT !.cache_buster = @ + 1]
    /\ scan_cache' = <<>>
    /\ UNCHANGED <<scanner, universe, report, ctor_kwargs, setup, detectVars,
                   clusterVars, matchVars, batchVars, zoneVars,
                   newsVars, alertVars>>

NextDashboard == StartScan \/ Refresh

SpecDashboard == InitDashboard /\ [][NextDashboard]_vars

(***************************************************************************)
(* The consolidation-zone detector on its own: ZonePadLen bars that are    *)
(* all wide or open with a base and its rally, then up to MaxZoneBars bars *)
(* that are tight, tight at a higher price, or a wide rally bar, then      *)
(* nothing or four bars surging higher.                                    *)
(***************************************************************************)
WideBar == Bar(108, 100, 104)

TightBar == Bar(102, 100, 101)

RallyBar == Bar(120, 108, 118)

TightHighBar == Bar(118, 116, 117)

SurgeBar == Bar(135, 120, 130)

ZoneBars == {TightBar, RallyBar, TightHighBar}

ZonePads ==
    { [k \in 1..ZonePadLen |-> WideBar],
      <<TightBar, TightBar, TightBar, RallyBar>> \o [k \in 1..(ZonePadLen - 4) |-> WideBar] }

ZoneSeries ==
    { pad \o body \o runway :
        pad \in ZonePads,
        body \in SeqUpTo(ZoneBars, MaxZoneBars),
        runway \in {<<>>, <<SurgeBar, SurgeBar, SurgeBar, SurgeBar>>} }

DefaultZoneConfig ==
    [min_consolidation_weeks |-> MIN_CONSOLIDATION_WEEKS,
     max_consolidation_range_pct |-> MAX_CONSOLIDATION_RANGE_PCT,
     min_rally_pct |-> MIN_RALLY_PCT,
     rally_lookahead_weeks |-> RALLY_LOOKHEAD_WEEKS]

ZoneConfigs ==
    { DefaultZoneConfig,
      [DefaultZoneConfig EXCEPT !.min_consolidation_weeks = 2,
                                !.rally_lookahead_weeks = 2] }

InitZones ==
    /\ scanner = Unconstructed
    /\ df \in ZoneSeries
    /\ runs = <<>>
    /\ zone_config \in ZoneConfigs
    /\ zones = <<>>
    /\ ClusterIdle /\ MatchIdle /\ BatchIdle /\ SetupIdle /\ DashIdle
    /\ NewsIdle /\ AlertIdle

DetectZones ==
    /\ zones = <<>>
    /\ zones' = <<find_demand_zones(df, zone_config)>>
    /\ UNCHANGED <<scanner, zone_config, detectVars, clusterVars, matchVars, batchVars,
                   setupVars, dashVars, newsVars, alertVars>>

NextZones == DetectZones

SpecZones == InitZones /\ [][NextZones]_vars

(***************************************************************************)
(* Detection on frames that go on after the support test: three tests of   *)
(* 100, a breakout, then up to MaxBounceTail rows that dip to the level,    *)
(* close just under it, close far above it or close below its floor.        *)
(***************************************************************************)
WeakRow == Bar(99, 97, 99)

BounceBars == {DipRow, WeakRow, BreakRow, QuietRow}

BounceSeries ==
    { Pad(PadLen) \o PeakBlocks(<<100, 100, 100>>) \o <<BreakRow>> \o t :
        t \in SeqUpTo(BounceBars, MaxBounceTail) }

InitBounce ==
    /\ scanner = DefaultScanner
    /\ df \in BounceSeries
    /\ runs = <<>>
    /\ ClusterIdle /\ MatchIdle /\ BatchIdle
    /\ SetupIdle /\ DashIdle /\ ZoneIdle /\ NewsIdle /\ AlertIdle

NextBounce == Detect

SpecBounce == InitBounce /\ [][NextBounce]_vars

(***************************************************************************)
(* The scheduled scans: each one hands its results (up to MaxResults of    *)
(* them) to detect_new_stocks.  detections keeps the latest two calls.     *)
(***************************************************************************)
NewsTickers == {"AAA", "BBB"}

ResultLists ==
    { [k \in 1..Len(ts) |-> [ticker |-> ts[k], current_price |-> 100 + k]] :
        ts \in SeqUpTo(NewsTickers, MaxResults) }

ReadOutcomes == {"ok", "raise"}

WriteOutcomes == {"ok", "open_raises", "dump_raises"}

LatestTwo(log) == IF Len(log) > 2 THEN Tail(log) ELSE log

InitNews ==
    /\ scanner = DefaultScanner
    /\ last_scan = NoFile
    /\ detections = <<>>
    /\ DetectIdle /\ ClusterIdle /\ MatchIdle /\ BatchIdle
    /\ SetupIdle /\ DashIdle /\ ZoneIdle /\ AlertIdle

DetectNew ==
    /\ \E current_results \in ResultLists, read \in ReadOutcomes, write \in WriteOutcomes :
          \E out \in {detect_new_stocks(current_results, last_scan, read, write)} :
              /\ last_scan' = out.file
              /\ detections' = LatestTwo(Append(detections,
                     [current_results |-> current_results,
                      before |-> last_scan, read |-> read, write |-> write,
                      new_stocks |-> out.new_stocks, after |-> out.file]))
    /\ UNCHANGED <<scanner, detectVars, clusterVars, matchVars, batchVars, setupVars,
                   dashVars, zoneVars, alertVars>>

NextNews == DetectNew

SpecNews == InitNews /\ [][NextNews]_vars

(***************************************************************************)
(* One send_new_stocks_alert call: any webhook URL, any list of up to      *)
(* MaxNewStocks stocks, any answer of the webhook.                         *)
(***************************************************************************)
Stocks ==
    [ticker : {"AAA"},
     indicators : {"absent", "None", "Bullish", "Bearish", "Other"},
     zone : BOOLEAN]

WebhookAnswers == [{"Bullish", "Bearish", "Neutral"} -> {"200", "404", "raise"}]

InitAlert ==
    /\ scanner = DefaultScanner
    /\ alert \in [webhook_url : {"", "https://discord.com/api/webhooks/1"},
                   new_stocks : SeqUpTo(Stocks, MaxNewStocks),
                   webhook : WebhookAnswers]
    /\ alert_out = <<>>
    /\ DetectIdle /\ ClusterIdle /\ MatchIdle /\ BatchIdle
    /\ SetupIdle /\ DashIdle /\ ZoneIdle /\ NewsIdle

SendAlert ==
    /\ alert_out = <<>>
    /\ alert_out' = <<send_new_stocks_alert(alert.webhook_url, alert.new_stocks,
                                            alert.webhook)>>
    /\ UNCHANGED <<scanner, alert, detectVars, clusterVars, matchVars, batchVars,
                   setupVars, dashVars, zoneVars, newsVars>>

NextAlert == SendAlert

SpecAlert == InitAlert /\ [][NextAlert]_vars

(***************************************************************************)
(* Properties of identify_resistance_flips (checked under SpecDetect).     *)
(***************************************************************************)
\* the flipped levels returned by the calls made so far
Emitted == UNION { {runs[k].flips[m] : m \in 1..Len(runs[k].flips)} : k \in 1..Len(runs) }

\* the row whose date string is dt
RowOfDate(dt) == dt \div DaysPerBar

SeqMax(q) == CHOOSE x \in {q[k] : k \in 1..Len(q)} : \A k \in 1..Len(q) : q[k] <= x

\* the clusters the flip loop of the calls made so far went through
Candidates ==
    UNION { {runs[k].levels[m] : m \in 1..Len(runs[k].levels)} : k \in 1..Len(runs) }

\* C1: in every flipped level returned, the breakout bar is strictly later
\* than the last resistance test, which is the latest member swing of the
\* cluster, and the support-test bar, when there is one, is strictly later
\* than the breakout bar.
C1_DatesOrdered ==
    \A f \in Emitted :
        /\ f.last_resistance_date = SeqMax(f.resistance_dates)
        /\ f.breakout_date > f.last_resistance_date
        /\ f.support_test_date # None => f.support_test_date > f.breakout_date

C1_Witness ==
    \E f \in Emitted :
        /\ f.support_test_date # None
        /\ Len(f.resistance_dates) >= 2
        /\ f.breakout_date > f.last_resistance_date + DaysPerBar

BrokeOutAt(c, b) ==
    LET last == MaxIndex(c.touches)
    IN /\ Len(df) - 1 - last >= MinBarsAfterTest
       /\ last < b /\ b <= Len(df) - 1
       /\ ClosedAbove(Row(df, b), c.level)
       /\ \A k \in (last + 1)..(b - 1) : ~ClosedAbove(Row(df, k), c.level)

NoSupportAfter(c, b) ==
    \A k \in (b + 1)..(Len(df) - 1) :
        ~IsSupportTest(Row(df, k), c.level, scanner.level_tolerance)

BrokeOutUntested ==
    { c \in Candidates :
        \E b \in (MaxIndex(c.touches) + 1)..(Len(df) - 1) :
            BrokeOutAt(c, b) /\ NoSupportAfter(c, b) }

EmittedFor(c) ==
    { f \in Emitted :
        f.last_resistance_date = DateStr(IndexOf(df, MaxIndex(c.touches))) }

\* C3 as stated: a cluster that broke out and has no support test after the
\* breakout is still returned, with support_test_date = None.
C3_EmittedWithNullSupport ==
    \A c \in BrokeOutUntested :
        \E f \in EmittedFor(c) : f.support_test_date = None

\* C3 as amended: a cluster that broke out and has no support test after the
\* breakout is discarded, and no flipped level returned has
\* support_test_date = None.
C3_UntestedDiscarded ==
    /\ \A c \in BrokeOutUntested : EmittedFor(c) = {}
    /\ \A f \in Emitted : f.support_test_date # None

C3_Witness ==
    \E c \in BrokeOutUntested :
        \E b \in (MaxIndex(c.touches) + 1)..(Len(df) - 3) : BrokeOutAt(c, b)

C9_InsufficientIffBelowMinDataPoints ==
    \A k \in 1..Len(runs) :
        runs[k].path = "insufficient" <=> Len(df) < MIN_DATA_POINTS

(***************************************************************************)
(* Properties of cluster_levels (checked under SpecCluster).               *)
(***************************************************************************)
RECURSIVE SumCounts(_)
SumCounts(levels) ==
    IF levels = <<>> THEN 0 ELSE levels[1].count + SumCounts(Tail(levels))

\* the places (cluster, touch) at which swing point k occurs in the result
PlacesOf(levels, k) ==
    { pl \in {<<c, m>> : c \in 1..Len(levels), m \in 1..MaxSwings + 1} :
        /\ pl[2] <= Len(levels[pl[1]].touches)
        /\ levels[pl[1]].touches[pl[2]] =
               [price |-> swings.prices[k], index |-> swings.indices[k],
                date |-> swings.dates[k]] }

\* C7: cluster_levels partitions the swing points: every swing point is a
\* member of exactly one returned cluster, every member of a cluster is a
\* swing point, each cluster's count is its number of members, and the
\* counts add up to the number of swing points.
C7_ClustersPartition ==
    clusters # <<>> =>
        LET levels == clusters[1]
        IN /\ \A k \in 1..Len(swings.prices) : Cardinality(PlacesOf(levels, k)) = 1
           /\ \A c \in 1..Len(levels) :
                 /\ levels[c].count = Len(levels[c].touches)
                 /\ levels[c].count >= 1
                 /\ \A m \in 1..Len(levels[c].touches) :
                       \E k \in 1..Len(swings.prices) :
                           levels[c].touches[m].index = swings.indices[k]
           /\ SumCounts(levels) = Len(swings.prices)

C7_Witness ==
    /\ clusters # <<>>
    /\ Len(clusters[1]) >= 2
    /\ \E c \in 1..Len(clusters[1]) : clusters[1][c].count >= 3
    /\ \E c \in 1..Len(clusters[1]) : clusters[1][c].count = 1

(***************************************************************************)
(* Properties of find_swing_highs (checked under SpecSwing).               *)
(***************************************************************************)
\* the rows find_swing_highs reported
Reported == {swings.indices[k] : k \in 1..Len(swings.indices)}

\* row i has order rows on each side and its high is strictly above the high
\* of each of them
ExceedsWindow(i, order) ==
    /\ i - order >= 0
    /\ i + order <= Len(df) - 1
    /\ \A s \in 1..order :
          /\ Row(df, i).High > Row(df, i - s).High
          /\ Row(df, i).High > Row(df, i + s).High

\* C24 as stated: find_swing_highs reports a row exactly when its high is
\* strictly above the high of each of the order rows on each side of it, and
\* reports the rows in chronological order.
C24_SwingIffExceedsWindow ==
    swings # NoSwings =>
        /\ \A i \in 0..(Len(df) - 1) : i \in Reported <=> ExceedsWindow(i, swings.order)
        /\ \A k \in 2..Len(swings.indices) : swings.indices[k - 1] < swings.indices[k]

(***************************************************************************)
(* Properties of cluster_levels (checked under SpecCluster).               *)
(***************************************************************************)
\* the sum of the prices of the first n members of a cluster
RECURSIVE PrefixSum(_, _)
PrefixSum(touches, n) ==
    IF n = 0 THEN 0 ELSE touches[n].price + PrefixSum(touches, n - 1)

\* price p is within the tolerance of the mean of the first n members:
\* |p - sum / n| / (sum / n) <= tolerance
NearRunningMean(p, touches, n, tol) ==
    Abs(p * n - PrefixSum(touches, n)) * 1000 <= tol * PrefixSum(touches, n)

\* C22: every member of a returned cluster after its seed was, when it was
\* admitted, within the tolerance of the mean of the members admitted before
\* it, and the level of the cluster is the mean price of all its members.
C22_AdmittedNearRunningMean ==
    clusters # <<>> =>
        \A c \in 1..Len(clusters[1]) :
            LET cl == clusters[1][c]
            IN /\ \A m \in 2..Len(cl.touches) :
                      NearRunningMean(cl.touches[m].price, cl.touches, m - 1,
                                      scanner.level_tolerance)
               /\ cl.level.num * Len(cl.touches)
                      = PrefixSum(cl.touches, Len(cl.touches)) * cl.level.den

\* a member admitted on the running mean that is outside the tolerance of
\* the seed price
C22_Witness ==
    /\ clusters # <<>>
    /\ \E c \in 1..Len(clusters[1]) :
          \E m \in 3..Len(clusters[1][c].touches) :
              ~NearRunningMean(clusters[1][c].touches[m].price,
                               clusters[1][c].touches, 1, scanner.level_tolerance)

\* the positions, in the argument list, of the members of cluster c
MemberPositions(levels, c) ==
    { k \in 1..Len(swings.prices) :
        \E m \in 1..Len(levels[c].touches) :
            levels[c].touches[m].index = swings.indices[k] }

\* the position, in the argument list, of the m-th member of cluster c
PositionOf(levels, c, m) ==
    CHOOSE k \in 1..Len(swings.prices) : levels[c].touches[m].index = swings.indices[k]

\* the positions taken by the clusters before cluster c
TakenBefore(levels, c) == UNION {MemberPositions(levels, b) : b \in 1..(c - 1)}

TouchPrices(touches) == [m \in 1..Len(touches) |-> touches[m].price]

ScenarioC == <<100, 101, 99, 150, 151>>

\* C23: clustering is the greedy single pass in encounter order: the seed of
\* each cluster is the earliest swing point no earlier cluster took, its
\* other members are later points in their original order, and a later
\* point no earlier cluster took is left out only if it was outside the
\* tolerance of the running mean when it was looked at.  On the swing highs
\* [100, 101, 99, 150, 151] with tolerance 2% the clusters are
\* [100, 101, 99] (count 3) and [150, 151] (count 2), and with min_tests = 3
\* only the first is passed on to flip detection.
C23_GreedySinglePass ==
    clusters # <<>> =>
        LET levels == clusters[1]
        IN /\ \A c \in 1..Len(levels) :
                 /\ \A k \in 1..Len(swings.prices) :
                        k \notin TakenBefore(levels, c) => PositionOf(levels, c, 1) <= k
                 /\ \A m \in 2..Len(levels[c].touches) :
                        PositionOf(levels, c, m - 1) < PositionOf(levels, c, m)
                 /\ \A k \in 1..Len(swings.prices) :
                        (/\ k > PositionOf(levels, c, 1)
                         /\ k \notin TakenBefore(levels, c)
                         /\ k \notin MemberPositions(levels, c))
                        => LET before == {m \in 1..Len(levels[c].touches) :
                                            PositionOf(levels, c, m) < k}
                           IN ~NearRunningMean(swings.prices[k], levels[c].touches,
                                               Cardinality(before),
                                               scanner.level_tolerance)
           /\ (swings.prices = ScenarioC /\ scanner.level_tolerance = 20) =>
                 /\ Len(levels) = 2
                 /\ TouchPrices(levels[1].touches) = <<100, 101, 99>>
                 /\ levels[1].count = 3
                 /\ TouchPrices(levels[2].touches) = <<150, 151>>
                 /\ levels[2].count = 2
                 /\ scanner.min_tests = 3 => clusters[2] = <<levels[1]>>

\* the scenario, clustered and filtered with tolerance 2% and min_tests = 3
C23_Witness ==
    /\ clusters # <<>>
    /\ swings.prices = ScenarioC
    /\ scanner.level_tolerance = 20
    /\ scanner.min_tests = 3
    /\ Len(clusters[2]) = 1

(***************************************************************************)
(* Properties of the proximity matcher (checked under SpecMatch).          *)
(***************************************************************************)
\* the call has been made and returned a match / returned None
MatchReturned == matched # <<>> /\ matched[1] # <<>>

NoMatchReturned == matched # <<>> /\ matched[1] = <<>>

TheMatch == matched[1][1]

\* candidate k satisfies level * (1 - tolerance) <= price <= level * 1.05
Qualifying(k) ==
    LET l == flipped_levels[k].level
    IN /\ l.num * (1000 - scanner.level_tolerance) <= current_price * l.den * 1000
       /\ current_price * l.den * 100 <= l.num * 105

QualifyingSet == {k \in 1..Len(flipped_levels) : Qualifying(k)}

\* (price - level) / level * 100 of the match, in hundredths, times level.num
ExactDistanceTimesNum ==
    (current_price * TheMatch.level.den - TheMatch.level.num) * 10000

\* the match bounds of C4: a match is returned exactly when a candidate lies
\* within them, and the level matched lies within them
MatchesWithinBounds ==
    /\ MatchReturned <=> (matched # <<>> /\ QualifyingSet # {})
    /\ MatchReturned =>
           /\ TheMatch.level.num * (1000 - scanner.level_tolerance)
                  <= current_price * TheMatch.level.den * 1000
           /\ current_price * TheMatch.level.den * 100 <= TheMatch.level.num * 105

\* C4 as stated: a level is matched exactly when
\* level * (1 - tolerance) <= price <= level * 1.05, and distance_pct of the
\* match equals (price - level) / level * 100.
C4_MatchBoundsExactDistance ==
    /\ MatchesWithinBounds
    /\ MatchReturned =>
           TheMatch.distance_pct * TheMatch.level.num = ExactDistanceTimesNum

\* C4 as amended: a level is matched exactly when
\* level * (1 - tolerance) <= price <= level * 1.05, and distance_pct of the
\* match is (price - level) / level * 100 rounded to two decimals (within
\* 0.005 of it), signed and not clamped.
C4_MatchBoundsRoundedDistance ==
    /\ MatchesWithinBounds
    /\ MatchReturned =>
           2 * Abs(TheMatch.distance_pct * TheMatch.level.num - ExactDistanceTimesNum)
               <= TheMatch.level.num

C4_Witness ==
    /\ MatchReturned
    /\ TheMatch.distance_pct * TheMatch.level.num # ExactDistanceTimesNum
    /\ TheMatch.distance_pct > 100

\* C5: the matcher returns at most one match, the first candidate in input
\* order that lies within the bounds, with the price added; when no candidate
\* qualifies it returns None and scan_ticker returns None for the ticker.
C5_FirstQualifyingWins ==
    matched # <<>> =>
        /\ Len(matched[1]) <= 1
        /\ QualifyingSet # {} =>
               LET first == CHOOSE k \in QualifyingSet : \A j \in QualifyingSet : k <= j
               IN /\ MatchReturned
                  /\ \A f \in DOMAIN flipped_levels[first] :
                         TheMatch[f] = flipped_levels[first][f]
                  /\ TheMatch.current_price = current_price
                  /\ scan_out[1] # <<>>
                  /\ scan_out[1][1].level = TheMatch
        /\ QualifyingSet = {} => matched[1] = <<>> /\ scan_out[1] = <<>>

\* two candidates qualify and the second is the nearer one
C5_Witness ==
    /\ MatchReturned
    /\ \E j, k \in QualifyingSet :
          /\ j < k
          /\ TheMatch.level = flipped_levels[j].level
          /\ flipped_levels[j].level.num * flipped_levels[k].level.den
                 < flipped_levels[k].level.num * flipped_levels[j].level.den
          /\ current_price * flipped_levels[k].level.den > flipped_levels[k].level.num

PriceAboveMatch == current_price * TheMatch.level.den > TheMatch.level.num

\* C6 as stated: distance_pct of a match is positive whenever the price is
\* above the matched level and negative or zero whenever it is at or below.
C6_SignStrict ==
    MatchReturned =>
        /\ PriceAboveMatch => TheMatch.distance_pct > 0
        /\ ~PriceAboveMatch => TheMatch.distance_pct <= 0

\* C6 as amended: distance_pct of a match is never negative when the price is
\* above the matched level and never positive when it is at or below; being
\* rounded to two decimals, it is zero rather than positive when the price is
\* above the level by no more than 0.005 per cent of it.
C6_SignAfterRounding ==
    MatchReturned =>
        /\ PriceAboveMatch => TheMatch.distance_pct >= 0
        /\ ~PriceAboveMatch => TheMatch.distance_pct <= 0
        /\ (PriceAboveMatch /\ TheMatch.distance_pct = 0) =>
               2 * ExactDistanceTimesNum <= TheMatch.level.num

C6_Witness ==
    /\ MatchReturned
    /\ PriceAboveMatch
    /\ TheMatch.distance_pct = 0

(***************************************************************************)
(* Properties of scan_multiple_tickers (checked under SpecBatch).          *)
(***************************************************************************)
\* the data source has a frame for t that flips and whose last close
\* matches one of its flipped levels
TickerMatchesUnder(t, sc) ==
    /\ world[t].kind = "frame"
    /\ world[t].rows # <<>>
    /\ \E flipped \in {identify_resistance_flips(world[t].rows,
                            sc.level_tolerance, sc.min_tests)} :
          /\ flipped # <<>>
          /\ \E k \in 1..Len(flipped) :
                 InMatchRange(Row(world[t].rows, Len(world[t].rows) - 1).Close,
                              flipped[k].level, sc.level_tolerance)

TickerMatches(t) == TickerMatchesUnder(t, scanner)

DataFails(t) ==
    \/ world[t].kind = "raise"
    \/ world[t].rows = <<>>
    \/ Len(world[t].rows) < MinBarsForFlips

ResultTickers == [k \in 1..Len(results) |-> results[k].ticker]

\* C10: whatever the data source does for each ticker (raises, returns an
\* empty frame or too few rows), scan_multiple_tickers never leaves through
\* an exception, scans every ticker of the list, and returns the results of
\* exactly the tickers that matched, in list order.
C10_BatchSurvivesFailures ==
    /\ pc # "raised"
    /\ pc = "done" =>
           /\ idx = Len(tickers)
           /\ Len(scan_log) = Len(tickers)
           /\ ResultTickers = SelectSeq(tickers, TickerMatches)

\* a failing ticker was scanned before a matching one, and the batch returned
C10_Witness ==
    /\ pc = "done"
    /\ \E i, j \in 1..Len(tickers) :
          /\ i < j
          /\ world[tickers[i]].kind = "raise"
          /\ TickerMatches(tickers[j])
    /\ \E i \in 1..Len(tickers) :
          world[tickers[i]].kind = "frame" /\ DataFails(tickers[i])
    /\ results # <<>>

(***************************************************************************)
(* Properties of scan_ticker inside the batch (checked under SpecBatch).   *)
(***************************************************************************)
\* the order the claim gives: fetch, detect, match, indicators
Pipeline ==
    <<"fetch_weekly_data", "identify_resistance_flips",
      "is_currently_testing_flipped_level", "calculate_technical_indicators">>

IsPrefix(p, q) == Len(p) <= Len(q) /\ p = SubSeq(q, 1, Len(p))

Called(entry, method) == \E m \in 1..Len(entry.calls) : entry.calls[m] = method

FetchedFrame(t) == world[t].kind = "frame" /\ world[t].rows # <<>>

\* the candidates detection finds in what the data source has for t
FlippedFor(t) ==
    IF FetchedFrame(t)
    THEN identify_resistance_flips(world[t].rows, scanner.level_tolerance,
                                   scanner.min_tests)
    ELSE <<>>

\* the last close of t's frame is in range of one of the candidates
LastCloseMatches(t, flipped) ==
    \E k \in 1..Len(flipped) :
        InMatchRange(Row(world[t].rows, Len(world[t].rows) - 1).Close,
                     flipped[k].level, scanner.level_tolerance)

\* C11: scan_ticker returns a result exactly when the fetch gave a non-empty
\* frame, detection gave a candidate and the last close matched one; its
\* calls are a prefix of fetch, detect, match, indicators, each made only
\* when the one before succeeded; the indicators are computed only for a
\* match and whatever they give (a dict, None for a short frame, None after
\* an exception) the result is returned.  Stated of the scan_ticker call
\* that has just returned or raised.
C11_ScanPipeline ==
    (scan_log # <<>> /\ pc \in {"loop", "raised"}) =>
        \A entry \in {scan_log[Len(scan_log)]} :
        \A flipped \in {FlippedFor(entry.ticker)} :
            /\ IsPrefix(entry.calls, Pipeline)
            /\ Len(entry.calls) >= 1
            /\ Called(entry, Pipeline[2]) <=> FetchedFrame(entry.ticker)
            /\ Called(entry, Pipeline[3]) <=> flipped # <<>>
            /\ Called(entry, Pipeline[4]) <=> LastCloseMatches(entry.ticker, flipped)
            /\ entry.found <=> LastCloseMatches(entry.ticker, flipped)
            /\ entry.found =>
                   /\ results # <<>>
                   /\ results[Len(results)].ticker = entry.ticker
                   /\ results[Len(results)].all_levels = flipped

\* a batch that scanned a ticker whose fetch failed, one that flipped without
\* a match, and returned results with and without indicators, one of them
\* after the indicator computation raised
C11_Witness ==
    /\ pc = "done"
    /\ \E k \in 1..Len(scan_log) : Len(scan_log[k].calls) = 1
    /\ \E k \in 1..Len(scan_log) : Len(scan_log[k].calls) = 3 /\ ~scan_log[k].found
    /\ \E k \in 1..Len(scan_log) :
          /\ scan_log[k].found
          /\ world[scan_log[k].ticker].ta = "raise"
    /\ \E r \in 1..Len(results) :
          /\ results[r].indicators = <<>>
          /\ Len(results[r].data) >= MinBarsForIndicators

\* results carry the indicators when the computation succeeds
C11_WitnessWithIndicators ==
    /\ pc = "done"
    /\ \E r \in 1..Len(results) : results[r].indicators # <<>>
    /\ \E r \in 1..Len(results) :
          results[r].indicators = <<>> /\ Len(results[r].data) < MinBarsForIndicators

(***************************************************************************)
(* Properties of the progress notifications (checked under SpecBatch).     *)
(***************************************************************************)
\* one notification per loop pass so far, in list order, numbered from 1,
\* total_count the length of the list
NotificationsInOrder ==
    /\ \A k \in 1..Len(progress) :
           progress[k].args = <<k, Len(tickers), tickers[k]>>
    /\ pc = "done" => Len(progress) = Len(tickers)
    /\ pc = "scan" => Len(progress) = idx + 1
    /\ pc = "loop" => Len(progress) = idx

\* C12 as claimed: ... and when the notification numbered k is delivered, k
\* tickers have completed scanning.
C12_NotifiedAfterCompletion ==
    progress_callback =>
        /\ NotificationsInOrder
        /\ \A k \in 1..Len(progress) : progress[k].returned = k

\* C12 as amended: with a callback, scan_multiple_tickers delivers exactly
\* one notification per ticker, in input order, numbered 1, 2, ... with
\* total_count the number of tickers; the notification numbered k is
\* delivered before the k-th ticker is scanned, when k - 1 tickers have
\* completed scanning.
C12_NotifiedBeforeScan ==
    progress_callback =>
        /\ NotificationsInOrder
        /\ \A k \in 1..Len(progress) : progress[k].returned = k - 1

\* a batch of three tickers with a callback ran to its end
C12_Witness ==
    /\ pc = "done"
    /\ progress_callback
    /\ Len(progress) = MaxTickers
    /\ progress[MaxTickers].returned = MaxTickers - 1
    /\ Len(scan_log) = MaxTickers

(***************************************************************************)
(* Cancellation (checked under SpecAbort).                                 *)
(***************************************************************************)
\* C13 as claimed: once the abort is requested no further scan is started,
\* and the batch returns without scanning the rest of the list.  A scan
\* that starts is a step that lengthens scan_log.
C13_AbortStopsBatch ==
    [][abort_requested => scan_log' = scan_log]_vars

(***************************************************************************)
(* The keys of a result (checked under SpecBatch).                         *)
(***************************************************************************)
ZoneFields == {"zone_low", "zone_high", "distance_pct", "rally_pct", "strength",
               "formed_date"}

\* C16 as claimed: every result carries the matched zone under 'zone', with
\* the fields of ZoneFields, and all zones found under 'all_zones'.
C16_ResultHasZoneKeys ==
    \A r \in 1..Len(results) :
        /\ "zone" \in DOMAIN results[r]
        /\ "all_zones" \in DOMAIN results[r]
        /\ ZoneFields \subseteq DOMAIN results[r].zone

(***************************************************************************)
(* Properties of the constructor (checked under SpecSetup).                *)
(***************************************************************************)
\* a tolerance <= 0 or min_tests < 1
InvalidConfig(kwargs) ==
    \/ \E p \in kwargs : p[1] \in {"level_tolerance", "zone_tolerance"} /\ p[2] <= 0
    \/ \E p \in kwargs : p[1] = "min_tests" /\ p[2] < 1

\* C14 as claimed: a call with an invalid configuration builds no scanner,
\* and no scan runs under an invalid configuration.
C14_InvalidConfigRejected ==
    InvalidConfig(ctor_kwargs) => (setup # "ready" /\ runs = <<>>)

\* C15 as claimed: DemandZoneScanner(lookback_years=..., zone_tolerance=...)
\* does not raise, and the zone tolerance is the tolerance of the scanner.
C15_ZoneToleranceAccepted ==
    (setup # "new" /\ KwargNames(ctor_kwargs) = {"lookback_years", "zone_tolerance"}) =>
        /\ setup = "ready"
        /\ scanner.level_tolerance = KwargValue(ctor_kwargs, "zone_tolerance")

(***************************************************************************)
(* Properties of the dashboard's scan handling (checked under              *)
(* SpecDashboard).                                                         *)
(***************************************************************************)
UniverseFailed == get_sp500_tickers(universe) = <<>>

\* the scanner the sliders ask for: the zone tolerance as the matching
\* tolerance, the other parameters at their defaults
SliderScanner ==
    [InitDefaults EXCEPT !.lookback_years = KwargValue(ctor_kwargs, "lookback_years"),
                         !.level_tolerance = KwargValue(ctor_kwargs, "zone_tolerance")]

\* the ticker universe was obtained and no ticker of it matches
ZeroMatches ==
    /\ ~UniverseFailed
    /\ \A k \in 1..Len(universe.tickers) :
           ~TickerMatchesUnder(universe.tickers[k], SliderScanner)

\* C17 as claimed: once the scan was handled, a scan that could not obtain
\* the ticker universe is reported as an error, and a scan that completed
\* with zero matches is reported as a completed scan with an empty result
\* list, never as an error.
C17_FailureDistinctFromNoMatches ==
    report # "idle" =>
        /\ UniverseFailed => report \in {ErrorNoTickers, ErrorDuringScan}
        /\ ZeroMatches =>
               /\ report = WarningNoStocks
               /\ session.results = << <<>> >>

\* C20: in every flipped level returned, the breakout bar is the first bar
\* after the last resistance test to close above level * 1.02: its close is
\* above level * 1.02 and every bar strictly between the last test and it
\* closed at or under level * 1.02.
C20_BreakoutIsFirstCloseAbove ==
    \A f \in Emitted :
        LET last == RowOfDate(f.last_resistance_date)
            b == RowOfDate(f.breakout_date)
        IN /\ last < b /\ b <= Len(df) - 1
           /\ Row(df, b).Close * f.level.den * 100 > f.level.num * 102
           /\ \A k \in (last + 1)..(b - 1) :
                  Row(df, k).Close * f.level.den * 100 <= f.level.num * 102

\* a flipped level whose breakout came after a bar that closed above the
\* level but not above level * 1.02
C20_Witness ==
    \E f \in Emitted :
        \E k \in (RowOfDate(f.last_resistance_date) + 1)..(RowOfDate(f.breakout_date) - 1) :
            /\ Row(df, k).Close * f.level.den > f.level.num
            /\ Row(df, k).Close * f.level.den * 100 <= f.level.num * 102

\* the rows after the last resistance test of cluster c
RowsAfterTest(c) == (MaxIndex(c.touches) + 1)..(Len(df) - 1)

\* fewer than five rows follow the last test of c
FewRowsAfterTest(c) == Cardinality(RowsAfterTest(c)) < 5

\* no row after the last test of c closed above level * 1.02
NeverClosedAbove(c) ==
    \A k \in RowsAfterTest(c) : Row(df, k).Close * c.level.den * 100 <= c.level.num * 102

\* the first row after the last test of c that closed above level * 1.02
BreakoutRow(c) ==
    CHOOSE b \in RowsAfterTest(c) :
        /\ Row(df, b).Close * c.level.den * 100 > c.level.num * 102
        /\ \A k \in RowsAfterTest(c) :
               k < b => Row(df, k).Close * c.level.den * 100 <= c.level.num * 102

\* a row that tests c as support: low <= level * (1 + 1.5 * tolerance) and
\* close > level * 0.98
TestsSupport(c, k) ==
    /\ Row(df, k).Low * c.level.den * 2000
           <= c.level.num * (2000 + 3 * scanner.level_tolerance)
    /\ Row(df, k).Close * c.level.den * 100 > c.level.num * 98

\* C21 as stated: a cluster that reached the flip loop (count >= min_tests)
\* is discarded exactly when fewer than five rows follow its last test or no
\* row after the last test closed above level * 1.02.
C21_DiscardedOnlyWithoutBreakout ==
    \A c \in Candidates :
        EmittedFor(c) = {} <=> (FewRowsAfterTest(c) \/ NeverClosedAbove(c))

\* C21 as amended: a cluster that reached the flip loop is discarded exactly
\* when fewer than five rows follow its last test, or no row after the last
\* test closed above level * 1.02, or fewer than two rows follow the
\* breakout row, or no row after the breakout row tests the level as
\* support.
C21_DiscardConditions ==
    \A c \in Candidates :
        EmittedFor(c) = {} <=>
            \/ FewRowsAfterTest(c)
            \/ NeverClosedAbove(c)
            \/ Len(df) - 1 - BreakoutRow(c) < 2
            \/ \A k \in (BreakoutRow(c) + 1)..(Len(df) - 1) : ~TestsSupport(c, k)

\* a cluster with five or more rows after its last test whose breakout came
\* on the last row but one, and whose last row tests the level as support
C21_Witness ==
    \E c \in Candidates :
        /\ ~FewRowsAfterTest(c)
        /\ ~NeverClosedAbove(c)
        /\ BreakoutRow(c) = Len(df) - 2
        /\ TestsSupport(c, Len(df) - 1)
        /\ EmittedFor(c) = {}

(***************************************************************************)
(* Properties of the list scan_multiple_tickers returns (checked under     *)
(* SpecBatch).                                                             *)
(***************************************************************************)
\* rs, read by ticker, is ts with some positions left out
RECURSIVE IsSubSequence(_, _)
IsSubSequence(rs, ts) ==
    IF rs = <<>> THEN TRUE
    ELSE IF ts = <<>> THEN FALSE
    ELSE IF rs[1].ticker = ts[1] THEN IsSubSequence(Tail(rs), Tail(ts))
    ELSE IsSubSequence(rs, Tail(ts))

\* what a scan of ticker t on its own returns
ScannedAlone(t) == scan_ticker(t, world[t], scanner).value

\* C29: the list scan_multiple_tickers returns is the ticker list with some
\* positions left out, in the same order, one result at most per position;
\* each result is what a scan of its ticker on its own returns, whatever the
\* other tickers of the batch and their order.
C29_ResultsAreSubSequence ==
    pc = "done" =>
        /\ IsSubSequence(results, tickers)
        /\ Len(results) <= Len(tickers)
        /\ \A r \in 1..Len(results) :
               \A alone \in {ScannedAlone(results[r].ticker)} : alone = <<results[r]>>

\* a batch that returned two results and left a ticker out before the
\* second of them
C29_Witness ==
    /\ pc = "done"
    /\ Len(results) = 2
    /\ Len(tickers) = 3
    /\ results[1].ticker # results[2].ticker
    /\ tickers[2] # results[2].ticker

\* the flipped level a match was made from: the match without the two keys
\* the matcher adds
WithoutMatchKeys(match) ==
    [k \in DOMAIN match \ {"current_price", "distance_pct"} |-> match[k]]

\* C30: in every result returned, all_levels is the list detection gave (the
\* matcher changed neither the list nor a candidate), the matched level is
\* one member of all_levels in every field, with current_price and
\* distance_pct added, and current_price is the close of the last bar.
C30_MatchLeavesCandidates ==
    pc = "done" =>
        \A r \in 1..Len(results) :
            LET res == results[r]
            IN /\ \A flipped \in {identify_resistance_flips(
                                      res.data, scanner.level_tolerance, scanner.min_tests)} :
                      res.all_levels = flipped
               /\ \E k \in 1..Len(res.all_levels) :
                      WithoutMatchKeys(res.level) = res.all_levels[k]
               /\ {"current_price", "distance_pct"} \subseteq DOMAIN res.level
               /\ res.level.current_price = res.current_price
               /\ res.current_price = Row(res.data, Len(res.data) - 1).Close

\* a result whose match is the second of two flipped levels, the first one
\* being out of reach of the price
C30_Witness ==
    /\ pc = "done"
    /\ \E r \in 1..Len(results) :
          /\ Len(results[r].all_levels) = 2
          /\ WithoutMatchKeys(results[r].level) = results[r].all_levels[2]
          /\ results[r].all_levels[1] # results[r].all_levels[2]

(***************************************************************************)
(* Properties of the bounce of a flipped level (checked under SpecBounce). *)
(***************************************************************************)
\* the rows of the window of up to five rows that starts at row s
WindowFrom(s) == {k \in s..(s + 4) : k <= Len(df) - 1}

\* C25: for every flipped level returned, support_bounce_pct is
\* (max_high - level) / level * 100, max_high being the highest high of the
\* window of up to five rows that starts at the support-test row and stops
\* at the end of the frame.
C25_BounceOverWindow ==
    \A f \in Emitted :
        f.support_test_date # None =>
            \E w \in WindowFrom(RowOfDate(f.support_test_date)) :
                /\ \A k \in WindowFrom(RowOfDate(f.support_test_date)) :
                       Row(df, k).High <= Row(df, w).High
                /\ f.support_bounce_pct.num * f.level.num
                       = (Row(df, w).High * f.level.den - f.level.num) * 100
                         * f.support_bounce_pct.den

\* a flipped level whose window is five rows long, with its highest high not
\* on the support-test row and a higher high after the window
C25_Witness ==
    \E f \in Emitted :
        LET s == RowOfDate(f.support_test_date)
        IN /\ s + 5 <= Len(df) - 1
           /\ \A k \in WindowFrom(s) : Row(df, k).High < Row(df, s + 5).High
           /\ \E k \in WindowFrom(s) : Row(df, k).High > Row(df, s).High

\* C28: for every flipped level returned (the bars being well formed),
\* support_bounce_pct is strictly greater than -2.
C28_BounceAboveMinusTwo ==
    \A f \in Emitted :
        /\ f.support_bounce_pct.den > 0
        /\ f.support_bounce_pct.num > (-2) * f.support_bounce_pct.den

\* a flipped level whose support-test row closed under the level and whose
\* window never reached the level: a negative bounce
C28_Witness ==
    \E f \in Emitted :
        /\ f.support_bounce_pct.num < 0
        /\ \E k \in WindowFrom(RowOfDate(f.support_test_date)) :
              k > RowOfDate(f.support_test_date)
              /\ Row(df, k).High * f.level.den * 100 <= f.level.num * 98

(***************************************************************************)
(* Properties of detect_new_stocks (checked under SpecNews).               *)
(***************************************************************************)
\* the tickers persisted in a file, none when there is no readable file
Persisted(file) == IF file.kind = "json" THEN file.tickers ELSE {}

\* results without the ones whose ticker is in seen, in their order
RECURSIVE Unseen(_, _)
Unseen(rs, seen) ==
    IF rs = <<>> THEN <<>>
    ELSE (IF rs[1].ticker \in seen THEN <<>> ELSE <<rs[1]>>) \o Unseen(Tail(rs), seen)

TickersOf(rs) == {rs[k].ticker : k \in 1..Len(rs)}

C27_ReturnsDeliveryStatus ==
    alert_out # <<>> =>
        /\ alert_out[1].returned =>
               \A k \in 1..Len(alert_out[1].sends) : alert_out[1].sends[k].delivered
        /\ (\/ alert.webhook_url = ""
            \/ alert.new_stocks = <<>>
            \/ \E k \in 1..Len(alert_out[1].sends) : ~alert_out[1].sends[k].delivered)
           => ~alert_out[1].returned

(***************************************************************************)
(* Properties of the consolidation-zone detector (checked under            *)
(* SpecZones).                                                             *)
(***************************************************************************)
\* the zones the detector returned
ZonesOut == zones[1].zones

\* the row a zone was formed at, and the first row of its consolidation
ZoneEnd(z) == z.formed_at \div (DaysPerBar * 24)

ZoneStart(z) == ZoneEnd(z) - z.strength + 1

\* C18: the zones emitted have pairwise disjoint consolidation ranges and
\* come earliest first: each zone's range ends before the next one's starts.
C18_ZonesDisjointInOrder ==
    zones # <<>> =>
        \A a, b \in 1..Len(ZonesOut) :
            a < b => ZoneEnd(ZonesOut[a]) < ZoneStart(ZonesOut[b])

\* two zones were emitted from one series
C18_Witness ==
    /\ zones # <<>>
    /\ Len(ZonesOut) >= 2
    /\ ZoneStart(ZonesOut[2]) = ZoneEnd(ZonesOut[1]) + 2

\* C19: every emitted zone has low <= mid <= high, rally_pct >= the
\* configured minimum rally and strength >= the configured minimum
\* consolidation length, and a candidate run with no bar after it is never
\* emitted.
C19_ZoneInvariants ==
    zones # <<>> =>
        /\ \A k \in 1..Len(ZonesOut) :
               LET z == ZonesOut[k]
               IN /\ z.low * z.mid.den <= z.mid.num
                  /\ z.mid.num <= z.high * z.mid.den
                  /\ z.rally_pct.num * 10 >= zone_config.min_rally_pct * z.rally_pct.den
                  /\ z.strength >= zone_config.min_consolidation_weeks
                  /\ ZoneEnd(z) < Len(df) - 1
        /\ \A c \in 1..Len(zones[1].candidates) :
               zones[1].candidates[c].end = Len(df) - 1 =>
                   \A k \in 1..Len(ZonesOut) :
                       ZoneEnd(ZonesOut[k]) # zones[1].candidates[c].end

\* one run was emitted and a later one ran to the end of the series, with
\* no bar left after it
C19_Witness ==
    /\ zones # <<>>
    /\ Len(ZonesOut) >= 1
    /\ \E c \in 1..Len(zones[1].candidates) :
          zones[1].candidates[c].verdict = "no_bars_ahead"

====
